---- MODULE Spec2Model ----
(***************************************************************************)
(* Cuckoo hash sets of dek226/CSE375-Proj2-Concurrent-Hash-Table:          *)
(*   - CuckooHashSet          (cuckooHash.cpp), single-threaded baseline,  *)
(*   - StripedCuckooHashSet   (striped2.cpp), one element per slot,        *)
(*   - StripedCuckooHashSet   (stripedCuckooHash.cpp), probe sets.         *)
(* Variables of the baseline start with b_, those of striped2.cpp with     *)
(* s_, those of the probe-set variant with p_.                             *)
(***************************************************************************)
EXTENDS Integers, Sequences, FiniteSets, TLC

VARIABLES
    b_set,      \* baseline: [table_size, table0, table1, seed, seed1]
    b_abs,      \* the mathematical set the baseline's calls are compared with
    b_call,     \* the last completed baseline call and what it returned
    s_set,      \* striped2: [table_size, table0, table1, seed, seed1]
    s_abs,      \* the mathematical set the striped2 calls are compared with
    s_call,     \* the last completed striped2 call, its result and its effect
    s_hung,     \* striped2: the thread blocks for ever inside a nested resize()
    p_set,      \* probe sets: [table_size, table0, table1, seed, seed1]
    p_locks,    \* probe sets: [l0, l1], the owner of each bucket mutex, 0 = free
    p_rw,       \* probe sets: resize_mutex, [readers, writer]
    p_th,       \* probe sets: each thread's position and locals
    p_started,  \* probe sets: the benchmark threads have been started
    p_before,   \* probe sets: size() when the threads were started
    p_dup,      \* probe sets: populate stored a value that was already stored
    p_lin,      \* probe sets: the sequential-set states the history admits
    c_set,      \* striped2 with threads: [table_size, table0, table1, seed, seed1]
    c_locks,    \* striped2 with threads: [locks0, locks1], owners, 0 = free
    c_global,   \* striped2 with threads: owner of global_resize_lock, 0 = free
    c_th,       \* striped2 with threads: each thread's position and locals
    c_pop,      \* striped2 with threads: the elements populate has added
    c_ub,       \* striped2 with threads: a thread went on with stale indices
    q_set,      \* probe sets, one thread: [table_size, table0, table1, seed, seed1]
    q_call,     \* probe sets, one thread: the last completed call
    m_set,      \* cuckooHash_TM: [table_size, table0, table1, seed, seed1]
    m_cnt,      \* cuckooHash_TM: resize_cnt
    m_call,     \* cuckooHash_TM: the last committed call
    x_set,      \* tm_cuckoo: [table_size, table0, table1, seed1]
    x_resizing, \* tm_cuckoo: the atomic flag resizing
    x_mutex,    \* tm_cuckoo: owner of resize_mutex, 0 = free
    x_th,       \* tm_cuckoo: each thread's position, locals and frames
    x_pop,      \* tm_cuckoo: the elements populate has added
    x_ub        \* tm_cuckoo: a transaction overlapped the resizer's writes

b_vars == <<b_set, b_abs, b_call>>
s_vars == <<s_set, s_abs, s_call, s_hung>>
p_vars == <<p_set, p_locks, p_rw, p_th, p_started, p_before, p_dup, p_lin>>
c_vars == <<c_set, c_locks, c_global, c_th, c_pop, c_ub>>
q_vars == <<q_set, q_call>>
m_vars == <<m_set, m_cnt, m_call>>
x_vars == <<x_set, x_resizing, x_mutex, x_th, x_pop, x_ub>>

(***************************************************************************)
(* Bounds of the model.                                                    *)
(***************************************************************************)
\* keys are 0, 6, 12, ... , 6 * MaxKey
MaxKey == 3
\* seeds are drawn from 0 .. MaxSeed
MaxSeed == 2
\* constructor argument `size` of the baseline
InitBase == 3
\* constructor argument `size` of striped2.cpp
InitStriped == 3
\* constructor argument `limit`
LIMIT == 1
\* probe sets: keys are 0, 2, ... , 2 * MaxProbeKey
MaxProbeKey == 2
\* probe sets: seeds are drawn from 0 .. MaxProbeSeed
MaxProbeSeed == 1
\* probe sets: constructor argument `size`
InitProbe == 1
\* probe sets: constructor arguments `probe_size` and `threshold`
PROBE_SIZE == 2
THRESHOLD == 1
\* probe sets: num_threads and ops_per_thread of the driver
NumThreads == 2
MaxCalls == 1

\* the keys the driver draws: multiples of 6, which collide under x % 6
Keys == {6 * k : k \in 0 .. MaxKey}
Seeds == 0 .. MaxSeed
\* std::nullopt
Empty == -1

(***************************************************************************)
(* Hashing: (hasher(x) ^ seed) % table_size.                               *)
(***************************************************************************)
RECURSIVE Xor(_, _)
Xor(a, b) ==
    IF a = 0 THEN b
    ELSE IF b = 0 THEN a
    ELSE (((a % 2) + (b % 2)) % 2) + 2 * Xor(a \div 2, b \div 2)

\* std::hash<int> is the identity on the non-negative keys the driver draws
hasher(x) == x

hash0(st, x) == (Xor(hasher(x), st.seed)) % st.table_size

hash1(st, x) == (Xor(hasher(x), st.seed1)) % st.table_size

\* the constructor: two tables of `size` empty slots and two drawn seeds
NewSet(size, sd, sd1) ==
    [table_size |-> size,
     table0 |-> [i \in 0 .. size - 1 |-> Empty],
     table1 |-> [i \in 0 .. size - 1 |-> Empty],
     seed |-> sd, seed1 |-> sd1]

\* swap(table_index, pos, x): store x, return the previous content
swap(st, table_index, pos, x) ==
    IF table_index = 0
    THEN [st |-> [st EXCEPT !.table0[pos] = x], old |-> st.table0[pos]]
    ELSE [st |-> [st EXCEPT !.table1[pos] = x], old |-> st.table1[pos]]

\* a membership test that looks at table0 only
containsFirstTable(st, x) == st.table0[hash0(st, x)] = x

contains(st, x) ==
    \/ st.table0[hash0(st, x)] = x
    \/ st.table1[hash1(st, x)] = x

\* the for loop of add, from iteration i on, carrying loop_x
RECURSIVE DisplaceLoop(_, _, _)
DisplaceLoop(st, loop_x, i) ==
    IF i >= LIMIT
    THEN [st |-> st, placed |-> FALSE, loop_x |-> loop_x]
    ELSE LET a == swap(st, 0, hash0(st, loop_x), loop_x)
         IN  IF a.old = Empty
             THEN [st |-> a.st, placed |-> TRUE, loop_x |-> loop_x]
             ELSE LET b == swap(a.st, 1, hash1(a.st, a.old), a.old)
                  IN  IF b.old = Empty
                      THEN [st |-> b.st, placed |-> TRUE, loop_x |-> loop_x]
                      ELSE DisplaceLoop(b.st, b.old, i + 1)

\* the occupied slots of a table, in index order (the range-for of resize)
Occupied(table, size) ==
    SelectSeq([i \in 1 .. size |-> table[i - 1]], LAMBDA e : e # Empty)

\* all elements a set state stores
Stored(st) ==
    ({st.table0[i] : i \in 0 .. st.table_size - 1} \cup
     {st.table1[i] : i \in 0 .. st.table_size - 1}) \ {Empty}

size(st) ==
    Cardinality({i \in 0 .. st.table_size - 1 : st.table0[i] # Empty}) +
    Cardinality({i \in 0 .. st.table_size - 1 : st.table1[i] # Empty})

(***************************************************************************)
(* Baseline CuckooHashSet (cuckooHash.cpp).  A call is one action; resize  *)
(* draws two seeds, so a call has a set of outcomes.                       *)
(***************************************************************************)
\* the element add() passes to the recursive add after resize()
BaseRetryOriginal(x, loop_x) == x

BaseRetry(x, loop_x) == loop_x

RECURSIVE BaseAdd(_, _), BaseResize(_), BaseReinsert(_, _, _)
\* add(x): outcomes [st, ret, resized, nested]
BaseAdd(st, x) ==
    IF contains(st, x)
    THEN {[st |-> st, ret |-> FALSE, resized |-> FALSE, nested |-> FALSE]}
    ELSE LET r == DisplaceLoop(st, x, 0)
         IN  IF r.placed
             THEN {[st |-> r.st, ret |-> TRUE, resized |-> FALSE, nested |-> FALSE]}
             ELSE UNION {
                    {[st |-> o.st, ret |-> o.ret, resized |-> TRUE,
                      nested |-> z.nested \/ o.nested] :
                        o \in BaseAdd(z.st, BaseRetry(x, r.loop_x))} :
                    z \in BaseResize(r.st)}

\* resize(): outcomes [st, nested]; nested = a reinsertion resized again
BaseResize(st) ==
    UNION {
        BaseReinsert(NewSet(2 * st.table_size, sd, sd1),
                     Occupied(st.table0, st.table_size) \o
                     Occupied(st.table1, st.table_size),
                     FALSE) :
        <<sd, sd1>> \in Seeds \X Seeds}

\* the two reinsertion loops of resize over the saved elements
BaseReinsert(st, todo, nested) ==
    IF todo = <<>>
    THEN {[st |-> st, nested |-> nested]}
    ELSE UNION {
           BaseReinsert(o.st, Tail(todo), nested \/ o.resized \/ o.nested) :
           o \in BaseAdd(st, Head(todo))}

\* a remove that looks at table0 only
BaseRemoveFirstTable(st, x) ==
    IF st.table0[hash0(st, x)] = x
    THEN [st |-> [st EXCEPT !.table0[hash0(st, x)] = Empty], ret |-> TRUE]
    ELSE [st |-> st, ret |-> FALSE]

\* a remove that reports an element of table1 removed and leaves it there
BaseRemoveKeepsSecond(st, x) ==
    IF st.table0[hash0(st, x)] = x
    THEN [st |-> [st EXCEPT !.table0[hash0(st, x)] = Empty], ret |-> TRUE]
    ELSE IF st.table1[hash1(st, x)] = x
    THEN [st |-> st, ret |-> TRUE]
    ELSE [st |-> st, ret |-> FALSE]

BaseRemove(st, x) ==
    IF st.table0[hash0(st, x)] = x
    THEN [st |-> [st EXCEPT !.table0[hash0(st, x)] = Empty], ret |-> TRUE]
    ELSE IF st.table1[hash1(st, x)] = x
    THEN [st |-> [st EXCEPT !.table1[hash1(st, x)] = Empty], ret |-> TRUE]
    ELSE [st |-> st, ret |-> FALSE]

\* the keys contains() reports
BaseMembers(st) == {y \in Keys : contains(st, y)}

\* the last call: undo = a remove(x) issued right after an add(x) that
\* found x absent; origin, added, undo_resized = the members before that
\* add, what it returned, whether it resized
NoCall == [op |-> "none", x |-> Empty, ret |-> FALSE, expected |-> FALSE,
           resized |-> FALSE, nested |-> FALSE, absent |-> FALSE,
           before |-> {}, undo |-> FALSE, origin |-> {}, added |-> FALSE,
           undo_resized |-> FALSE]

BaseAddCall ==
    \E x \in Keys : \E o \in BaseAdd(b_set, x) :
        /\ b_set' = o.st
        /\ b_abs' = b_abs \cup {x}
        /\ b_call' = [NoCall EXCEPT !.op = "add", !.x = x, !.ret = o.ret,
                        !.expected = x \notin b_abs,
                        !.resized = o.resized, !.nested = o.nested,
                        !.absent = ~contains(b_set, x),
                        !.before = BaseMembers(b_set)]

BaseRemoveCall ==
    \E x \in Keys :
        LET o == BaseRemove(b_set, x)
        IN  /\ b_set' = o.st
            /\ b_abs' = b_abs \ {x}
            /\ b_call' =
                 LET undo == b_call.op = "add" /\ b_call.x = x /\ b_call.absent
                 IN  [NoCall EXCEPT !.op = "remove", !.x = x, !.ret = o.ret,
                        !.expected = x \in b_abs,
                        !.before = BaseMembers(b_set),
                        !.undo = undo,
                        !.origin = IF undo THEN b_call.before ELSE {},
                        !.added = undo /\ b_call.ret,
                        !.undo_resized = undo /\ b_call.resized]

BaseContainsCall ==
    \E x \in Keys :
        /\ b_call' = [NoCall EXCEPT !.op = "contains", !.x = x,
                        !.ret = contains(b_set, x),
                        !.expected = x \in b_abs,
                        !.before = BaseMembers(b_set)]
        /\ UNCHANGED <<b_set, b_abs>>

BaseNext ==
    \/ BaseAddCall /\ UNCHANGED <<s_vars, p_vars, c_vars, q_vars, m_vars, x_vars>>
    \/ BaseRemoveCall /\ UNCHANGED <<s_vars, p_vars, c_vars, q_vars, m_vars, x_vars>>
    \/ BaseContainsCall /\ UNCHANGED <<s_vars, p_vars, c_vars, q_vars, m_vars, x_vars>>

\* C1: every baseline call returns what the same call returns on a
\* mathematical set that started empty (add: x was absent, remove: x was
\* present, contains: x is a member), resizes and nested resizes included.
BaseReturnsAsSet == b_call.ret = b_call.expected

\* an add that exhausted LIMIT, resized, and resized again while reinserting
BaseNestedResizeAdd ==
    /\ b_call.op = "add" /\ b_call.ret
    /\ b_call.resized /\ b_call.nested

\* the slots that hold x
BaseSlotsOf(st, x) ==
    {<<0, i>> : i \in {k \in 0 .. st.table_size - 1 : st.table0[k] = x}} \cup
    {<<1, i>> : i \in {k \in 0 .. st.table_size - 1 : st.table1[k] = x}}

\* C11: after every completed baseline call every stored element occupies
\* exactly one slot, and it is table0[hash0(x)] or table1[hash1(x)] under
\* the current seeds and table_size.
BaseOneHomeSlot ==
    \A x \in Stored(b_set) :
        \/ BaseSlotsOf(b_set, x) = {<<0, hash0(b_set, x)>>}
        \/ BaseSlotsOf(b_set, x) = {<<1, hash1(b_set, x)>>}

\* an add that resized and left elements in both tables
BaseResizedBothTables ==
    /\ b_call.op = "add" /\ b_call.resized
    /\ \E i \in 0 .. b_set.table_size - 1 : b_set.table0[i] # Empty
    /\ \E i \in 0 .. b_set.table_size - 1 : b_set.table1[i] # Empty

\* C14: size() is the number of distinct elements contained, which is the
\* number of adds that returned true minus the removes that returned true.
BaseSizeCountsMembers ==
    /\ size(b_set) = Cardinality(BaseMembers(b_set))
    /\ size(b_set) = Cardinality(b_abs)

\* a second add of a contained element, after a resize had taken place
BaseRepeatedAdd ==
    /\ b_call.op = "add" /\ ~b_call.ret /\ ~b_call.absent
    /\ b_set.table_size > InitBase
    /\ size(b_set) >= 2

\* C15: from contains(x) false, add(x); remove(x) returns (true, true) and
\* leaves the contained elements as they were, also when add(x) resized.
BaseAddRemoveRestores ==
    (b_call.op = "remove" /\ b_call.undo) =>
        /\ b_call.added
        /\ b_call.ret
        /\ BaseMembers(b_set) = b_call.origin

\* add(x); remove(x) where the add resized a set that held other elements
BaseUndoAfterResize ==
    /\ b_call.op = "remove" /\ b_call.undo /\ b_call.undo_resized
    /\ b_call.origin # {}

(***************************************************************************)
(* StripedCuckooHashSet of striped2.cpp, run by one thread.  The bucket    *)
(* locks a single thread takes are always free, so acquire and release     *)
(* never block; resize() locks global_resize_lock, a std::mutex, and       *)
(* locking it again from add_internal's nested resize() blocks for ever.   *)
(***************************************************************************)
contains_internal(st, x) ==
    \/ st.table0[hash0(st, x)] = x
    \/ st.table1[hash1(st, x)] = x

\* add_internal(x), called by resize() with global_resize_lock held:
\* outcome [st, ret, hung]; the loop reaching LIMIT calls resize() again,
\* whose unique_lock on the mutex the thread already owns never returns
StripedAddInternal(st, x) ==
    IF contains_internal(st, x)
    THEN [st |-> st, ret |-> FALSE, hung |-> FALSE]
    ELSE LET r == DisplaceLoop(st, x, 0)
         IN  [st |-> r.st, ret |-> r.placed, hung |-> ~r.placed]

\* the reinsertion loops of resize()
RECURSIVE StripedReinsert(_, _)
StripedReinsert(st, todo) ==
    IF todo = <<>>
    THEN [st |-> st, hung |-> FALSE]
    ELSE LET o == StripedAddInternal(st, Head(todo))
         IN  IF o.hung THEN [st |-> o.st, hung |-> TRUE]
             ELSE StripedReinsert(o.st, Tail(todo))

\* resize(): outcomes [st, hung], one per pair of drawn seeds
StripedResize(st) ==
    {StripedReinsert(NewSet(2 * st.table_size, sd, sd1),
                     Occupied(st.table0, st.table_size) \o
                     Occupied(st.table1, st.table_size)) :
     <<sd, sd1>> \in Seeds \X Seeds}

\* the element add() passes to the recursive add after resize()
StripedRetry(x, loop_x) == x

\* add(x): outcomes [st, ret, resized, hung]
RECURSIVE StripedAdd(_, _)
StripedAdd(st, x) ==
    IF contains_internal(st, x)
    THEN {[st |-> st, ret |-> FALSE, resized |-> FALSE, hung |-> FALSE]}
    ELSE LET r == DisplaceLoop(st, x, 0)
         IN  IF r.placed
             THEN {[st |-> r.st, ret |-> TRUE, resized |-> FALSE, hung |-> FALSE]}
             ELSE UNION {
                    IF z.hung
                    THEN {[st |-> z.st, ret |-> FALSE, resized |-> TRUE,
                           hung |-> TRUE]}
                    ELSE {[st |-> o.st, ret |-> o.ret, resized |-> TRUE,
                           hung |-> o.hung] :
                            o \in StripedAdd(z.st, StripedRetry(x, r.loop_x))} :
                    z \in StripedResize(r.st)}

StripedRemove(st, x) ==
    IF st.table0[hash0(st, x)] = x
    THEN [st |-> [st EXCEPT !.table0[hash0(st, x)] = Empty], ret |-> TRUE]
    ELSE IF st.table1[hash1(st, x)] = x
    THEN [st |-> [st EXCEPT !.table1[hash1(st, x)] = Empty], ret |-> TRUE]
    ELSE [st |-> st, ret |-> FALSE]

\* the keys contains() reports
Members(st) == {y \in Keys : contains_internal(st, y)}

StripedNoCall == [op |-> "none", x |-> Empty, ret |-> FALSE,
                  before |-> {}, resized |-> FALSE]

StripedAddCall ==
    /\ ~s_hung
    /\ \E x \in Keys : \E o \in StripedAdd(s_set, x) :
        /\ s_set' = o.st
        /\ s_hung' = o.hung
        /\ s_abs' = s_abs \cup {x}
        /\ s_call' = [op |-> "add", x |-> x, ret |-> o.ret,
                      before |-> Members(s_set), resized |-> o.resized]

StripedRemoveCall ==
    /\ ~s_hung
    /\ \E x \in Keys :
        LET o == StripedRemove(s_set, x)
        IN  /\ s_set' = o.st
            /\ s_abs' = s_abs \ {x}
            /\ s_call' = [op |-> "remove", x |-> x, ret |-> o.ret,
                          before |-> Members(s_set), resized |-> FALSE]
            /\ UNCHANGED s_hung

StripedContainsCall ==
    /\ ~s_hung
    /\ \E x \in Keys :
        /\ s_call' = [op |-> "contains", x |-> x,
                      ret |-> contains_internal(s_set, x),
                      before |-> Members(s_set), resized |-> FALSE]
        /\ UNCHANGED <<s_set, s_abs, s_hung>>

StripedNext ==
    \/ StripedAddCall /\ UNCHANGED <<b_vars, p_vars, c_vars, q_vars, m_vars, x_vars>>
    \/ StripedRemoveCall /\ UNCHANGED <<b_vars, p_vars, c_vars, q_vars, m_vars, x_vars>>
    \/ StripedContainsCall /\ UNCHANGED <<b_vars, p_vars, c_vars, q_vars, m_vars, x_vars>>

\* C7: a returned add(x) of striped2.cpp leaves every element y # x that
\* was contained before the call contained, also when it resized.
StripedAddKeepsOthers ==
    (s_call.op = "add" /\ ~s_hung) =>
        \A y \in s_call.before \ {s_call.x} : contains_internal(s_set, y)

\* C8: a returned add(x) of striped2.cpp returns true whenever x was not
\* contained at the time of the call, also when it resized and retried.
StripedAddAbsentReturnsTrue ==
    (s_call.op = "add" /\ ~s_hung /\ s_call.x \notin s_call.before) =>
        s_call.ret

\* acquire(x): the slots whose mutex the thread holds, <<table, index>>;
\* with hash0(x) = hash1(x) only locks0 is locked
StripedHeld(st, x) ==
    IF hash0(st, x) = hash1(st, x)
    THEN {<<0, hash0(st, x)>>}
    ELSE {<<0, hash0(st, x)>>, <<1, hash1(st, x)>>}

\* the slots the for loop of add writes, from iteration i on
RECURSIVE StripedChainWrites(_, _, _)
StripedChainWrites(st, loop_x, i) ==
    IF i >= LIMIT THEN {}
    ELSE LET a == swap(st, 0, hash0(st, loop_x), loop_x)
         IN  {<<0, hash0(st, loop_x)>>} \cup
             (IF a.old = Empty THEN {}
              ELSE LET b == swap(a.st, 1, hash1(a.st, a.old), a.old)
                   IN  {<<1, hash1(a.st, a.old)>>} \cup
                       (IF b.old = Empty THEN {}
                        ELSE StripedChainWrites(b.st, b.old, i + 1)))

\* C20: every slot the displacement chain of add(x) writes is a slot whose
\* mutex the thread holds by acquire(x).
StripedChainWritesHeld ==
    [][(s_call'.op = "add" /\ ~contains_internal(s_set, s_call'.x)) =>
          StripedChainWrites(s_set, s_call'.x, 0) \subseteq
              StripedHeld(s_set, s_call'.x)]_s_vars

\* C23: a resize of striped2.cpp whose reinsertion exhausts LIMIT
\* displacements terminates: the nested resize() that add_internal calls
\* completes, and so does the outer resize, so no call is left blocked.
StripedNestedResizeReturns == ~s_hung

(***************************************************************************)
(* StripedCuckooHashSet of stripedCuckooHash.cpp: a std::list per bucket,  *)
(* a mutex per bucket, and resize_mutex, a std::shared_mutex.  Threads     *)
(* interleave at lock operations and at the unlocked reads of relocate.    *)
(***************************************************************************)
Threads == 1 .. NumThreads
ProbeKeys == {2 * k : k \in 0 .. MaxProbeKey}
ProbeSeeds == 0 .. MaxProbeSeed

phash0(st, x) == (Xor(hasher(x), st.seed)) % st.table_size

phash1(st, x) == (Xor(hasher(x), st.seed1)) % st.table_size

\* the constructor: empty lists, free mutexes, two drawn seeds
NewProbeSet(sz, sd, sd1) ==
    [table_size |-> sz,
     table0 |-> [i \in 0 .. sz - 1 |-> <<>>],
     table1 |-> [i \in 0 .. sz - 1 |-> <<>>],
     seed |-> sd, seed1 |-> sd1]

NewLocks(sz) ==
    [l0 |-> [i \in 0 .. sz - 1 |-> 0], l1 |-> [i \in 0 .. sz - 1 |-> 0]]

\* std::find(...) != end()
InList(lst, y) == \E k \in 1 .. Len(lst) : lst[k] = y

\* erase(std::find(...)): the first occurrence goes
Erase(lst, y) ==
    LET k == CHOOSE k \in 1 .. Len(lst) :
                 lst[k] = y /\ \A j \in 1 .. k - 1 : lst[j] # y
    IN  SubSeq(lst, 1, k - 1) \o SubSeq(lst, k + 1, Len(lst))

\* the bucket (i, h)
Bucket(st, i, h) == IF i = 0 THEN st.table0[h] ELSE st.table1[h]

SetBucket(st, i, h, lst) ==
    IF i = 0 THEN [st EXCEPT !.table0[h] = lst]
    ELSE [st EXCEPT !.table1[h] = lst]

\* a presence test that looks at table0 only
presentFirstTable(st, x) == InList(st.table0[phash0(st, x)], x)

present(st, x) ==
    \/ InList(st.table0[phash0(st, x)], x)
    \/ InList(st.table1[phash1(st, x)], x)

\* add_internal(x): [st, ret]
ProbeAddInternal(st, x) ==
    LET h0 == phash0(st, x)
        h1 == phash1(st, x)
    IN  IF Len(st.table0[h0]) < THRESHOLD
        THEN [st |-> [st EXCEPT !.table0[h0] = Append(@, x)], ret |-> TRUE]
        ELSE IF Len(st.table1[h1]) < THRESHOLD
        THEN [st |-> [st EXCEPT !.table1[h1] = Append(@, x)], ret |-> TRUE]
        ELSE [st |-> st, ret |-> FALSE]

\* the elements of a table, row by row (the nested range-for of resize)
RECURSIVE Rows(_, _, _)
Rows(table, i, sz) ==
    IF i >= sz THEN <<>> ELSE table[i] \o Rows(table, i + 1, sz)

\* the reinsertion loops of resize: add_internal's result is not looked at
RECURSIVE ProbeReinsert(_, _)
ProbeReinsert(st, todo) ==
    IF todo = <<>> THEN st
    ELSE ProbeReinsert(ProbeAddInternal(st, Head(todo)).st, Tail(todo))

\* a resize that triples table_size
ProbeRebuildTripled(st, sd, sd1) ==
    ProbeReinsert(NewProbeSet(3 * st.table_size, sd, sd1),
                  Rows(st.table0, 0, st.table_size) \o
                  Rows(st.table1, 0, st.table_size))

\* resize() past its table_size check, with the seeds it draws
ProbeRebuild(st, sd, sd1) ==
    ProbeReinsert(NewProbeSet(2 * st.table_size, sd, sd1),
                  Rows(st.table0, 0, st.table_size) \o
                  Rows(st.table1, 0, st.table_size))

\* all values the buckets store
ProbeStored(st) ==
    {e \in ProbeKeys : \E h \in 0 .. st.table_size - 1 :
        InList(st.table0[h], e) \/ InList(st.table1[h], e)}

RECURSIVE SumLen(_, _, _)
SumLen(table, i, sz) ==
    IF i >= sz THEN 0 ELSE Len(table[i]) + SumLen(table, i + 1, sz)

\* size()
ProbeCount(st) ==
    SumLen(st.table0, 0, st.table_size) + SumLen(st.table1, 0, st.table_size)

(***************************************************************************)
(* The sequential-set states a history admits: configurations [S, r] of a  *)
(* set S and, per thread, "idle", "pend" (called, not yet taken effect),   *)
(* "true" or "false" (taken effect with that result).                      *)
(***************************************************************************)
SeqResult(S, op, x) ==
    IF op = "add" THEN x \notin S ELSE x \in S

SeqEffect(S, op, x) ==
    IF op = "add" THEN S \cup {x}
    ELSE IF op = "remove" THEN S \ {x}
    ELSE S

LinStep(C, th) ==
    C \cup {[S |-> SeqEffect(c.S, th[t].op, th[t].x),
             r |-> [c.r EXCEPT ![t] =
                      IF SeqResult(c.S, th[t].op, th[t].x) THEN "true" ELSE "false"]] :
            <<c, t>> \in {ct \in C \X Threads : ct[1].r[ct[2]] = "pend"}}

RECURSIVE LinClosure(_, _)
LinClosure(C, th) ==
    LET D == LinStep(C, th) IN IF D = C THEN C ELSE LinClosure(D, th)

LinStart(S) == {[S |-> S, r |-> [t \in Threads |-> "idle"]]}

LinCall(C, t, th) ==
    LinClosure({[c EXCEPT !.r[t] = "pend"] : c \in C}, th)

LinReturn(C, t, v) ==
    {[c EXCEPT !.r[t] = "idle"] :
        c \in {d \in C : d.r[t] = IF v THEN "true" ELSE "false"}}

(***************************************************************************)
(* Threads.                                                                *)
(***************************************************************************)
\* a thread between calls
IdleThread ==
    [pc |-> "idle", op |-> "none", x |-> Empty, ret |-> "none",
     lk |-> Empty, i |-> -1, h |-> -1, y |-> Empty, hj |-> -1, round |-> 0,
     old_capacity |-> 0, epoch |-> 0, inserted |-> FALSE, stale_move |-> FALSE,
     calls |-> 0, computed_size |-> 0]

\* the thread's record when its call returns v
Return(rec, v) ==
    [rec EXCEPT !.pc = "idle", !.ret = IF v THEN "true" ELSE "false",
                !.lk = Empty, !.i = -1, !.h = -1, !.y = Empty, !.hj = -1,
                !.round = 0, !.old_capacity = 0, !.epoch = 0,
                !.computed_size =
                    IF v /\ rec.op = "add" THEN @ + 1
                    ELSE IF v /\ rec.op = "remove" THEN @ - 1
                    ELSE @]

\* a release that forgets locks0[hash0(x)]
ReleaseSecondOnly(locks, st, x) ==
    [l0 |-> locks.l0, l1 |-> [locks.l1 EXCEPT ![phash1(st, x)] = 0]]

\* a release that forgets locks1[hash1(x)]
ReleaseFirstOnly(locks, st, x) ==
    [l0 |-> [locks.l0 EXCEPT ![phash0(st, x)] = 0], l1 |-> locks.l1]

\* release(x): both bucket mutexes of x are unlocked
ReleaseBoth(locks, st, x) ==
    [l0 |-> [locks.l0 EXCEPT ![phash0(st, x)] = 0],
     l1 |-> [locks.l1 EXCEPT ![phash1(st, x)] = 0]]

\* populate(n), one add_internal of a drawn key; the driver calls it
\* before it starts the threads
Populate ==
    /\ ~p_started
    /\ \E x \in ProbeKeys :
        LET o == ProbeAddInternal(p_set, x)
        IN  /\ p_set' = o.st
            /\ p_dup' = (p_dup \/ (o.ret /\ x \in ProbeStored(p_set)))
            /\ p_before' = ProbeCount(o.st)
            /\ p_lin' = LinStart(ProbeStored(o.st))
    /\ UNCHANGED <<p_locks, p_rw, p_th, p_started>>

\* a thread calls contains, add or remove
Call(t) ==
    /\ p_th[t].pc = "idle"
    /\ p_th[t].calls < MaxCalls
    /\ \E op \in {"contains", "add", "remove"}, x \in ProbeKeys :
        /\ p_th' = [p_th EXCEPT ![t] =
                      [IdleThread EXCEPT !.pc = "shared", !.op = op, !.x = x,
                                         !.calls = p_th[t].calls + 1,
                                         !.computed_size = p_th[t].computed_size]]
        /\ p_lin' = LinCall(p_lin, t, p_th')
    /\ p_started' = TRUE
    /\ UNCHANGED <<p_set, p_locks, p_rw, p_before, p_dup>>

\* a shared lock that is granted while resize holds resize_mutex
LockSharedUnguarded(t) ==
    /\ p_th[t].pc = "shared"
    /\ p_rw' = [p_rw EXCEPT !.readers = @ \cup {t}]
    /\ p_th' = [p_th EXCEPT ![t].pc = "lock0", ![t].lk = p_th[t].x]
    /\ UNCHANGED <<p_set, p_locks, p_started, p_before, p_dup, p_lin>>

\* std::shared_lock resize_guard(resize_mutex) of contains, add, remove
LockShared(t) ==
    /\ p_th[t].pc = "shared"
    /\ p_rw.writer = 0
    /\ p_rw' = [p_rw EXCEPT !.readers = @ \cup {t}]
    /\ p_th' = [p_th EXCEPT ![t].pc = "lock0", ![t].lk = p_th[t].x]
    /\ UNCHANGED <<p_set, p_locks, p_started, p_before, p_dup, p_lin>>

\* acquire: locks0[hash0(lk)].lock()
Lock0(t) ==
    /\ p_th[t].pc = "lock0"
    /\ p_locks.l0[phash0(p_set, p_th[t].lk)] = 0
    /\ p_locks' = [p_locks EXCEPT !.l0[phash0(p_set, p_th[t].lk)] = t]
    /\ p_th' = [p_th EXCEPT ![t].pc = "lock1"]
    /\ UNCHANGED <<p_set, p_rw, p_started, p_before, p_dup, p_lin>>

\* acquire: locks1[hash1(lk)].lock()
Lock1(t) ==
    /\ p_th[t].pc = "lock1"
    /\ p_locks.l1[phash1(p_set, p_th[t].lk)] = 0
    /\ p_locks' = [p_locks EXCEPT !.l1[phash1(p_set, p_th[t].lk)] = t]
    /\ p_th' = [p_th EXCEPT ![t].pc =
                  IF p_th[t].y = Empty THEN "body" ELSE "relocate_body"]
    /\ UNCHANGED <<p_set, p_rw, p_started, p_before, p_dup, p_lin>>

\* contains: present, release, return
ContainsBody(t) ==
    /\ p_th[t].pc = "body" /\ p_th[t].op = "contains"
    /\ LET x == p_th[t].x
           res == present(p_set, x)
       IN  /\ p_locks' = ReleaseBoth(p_locks, p_set, x)
           /\ p_rw' = [p_rw EXCEPT !.readers = @ \ {t}]
           /\ p_th' = [p_th EXCEPT ![t] = Return(@, res)]
           /\ p_lin' = LinReturn(p_lin, t, res)
    /\ UNCHANGED <<p_set, p_started, p_before, p_dup>>

\* remove: erase from set0, else from set1, release, return
RemoveBody(t) ==
    /\ p_th[t].pc = "body" /\ p_th[t].op = "remove"
    /\ LET x == p_th[t].x
           h0 == phash0(p_set, x)
           h1 == phash1(p_set, x)
           in0 == InList(p_set.table0[h0], x)
           in1 == InList(p_set.table1[h1], x)
           res == in0 \/ in1
       IN  /\ p_set' = IF in0 THEN [p_set EXCEPT !.table0[h0] = Erase(@, x)]
                       ELSE IF in1 THEN [p_set EXCEPT !.table1[h1] = Erase(@, x)]
                       ELSE p_set
           /\ p_locks' = ReleaseBoth(p_locks, p_set, x)
           /\ p_rw' = [p_rw EXCEPT !.readers = @ \ {t}]
           /\ p_th' = [p_th EXCEPT ![t] = Return(@, res)]
           /\ p_lin' = LinReturn(p_lin, t, res)
    /\ UNCHANGED <<p_started, p_before, p_dup>>

\* the bucket work of add with its PROBE_SIZE tests off by one
AddChoiceOverfull(st, x) ==
    LET h0 == phash0(st, x)
        h1 == phash1(st, x)
        n0 == Len(st.table0[h0])
        n1 == Len(st.table1[h1])
        in0 == [st EXCEPT !.table0[h0] = Append(@, x)]
        in1 == [st EXCEPT !.table1[h1] = Append(@, x)]
    IN  IF present(st, x) THEN [st |-> st, out |-> "false", i |-> -1, h |-> -1]
        ELSE IF n0 < THRESHOLD THEN [st |-> in0, out |-> "true", i |-> -1, h |-> -1]
        ELSE IF n1 < THRESHOLD THEN [st |-> in1, out |-> "true", i |-> -1, h |-> -1]
        ELSE IF n0 <= PROBE_SIZE THEN [st |-> in0, out |-> "relocate", i |-> 0, h |-> h0]
        ELSE IF n1 <= PROBE_SIZE THEN [st |-> in1, out |-> "relocate", i |-> 1, h |-> h1]
        ELSE [st |-> st, out |-> "resize", i |-> -1, h |-> -1]

\* the bucket work of add trying table1 before table0
AddChoiceSecondFirst(st, x) ==
    LET h0 == phash0(st, x)
        h1 == phash1(st, x)
        n0 == Len(st.table0[h0])
        n1 == Len(st.table1[h1])
        in0 == [st EXCEPT !.table0[h0] = Append(@, x)]
        in1 == [st EXCEPT !.table1[h1] = Append(@, x)]
    IN  IF present(st, x) THEN [st |-> st, out |-> "false", i |-> -1, h |-> -1]
        ELSE IF n1 < THRESHOLD THEN [st |-> in1, out |-> "true", i |-> -1, h |-> -1]
        ELSE IF n0 < THRESHOLD THEN [st |-> in0, out |-> "true", i |-> -1, h |-> -1]
        ELSE IF n1 < PROBE_SIZE THEN [st |-> in1, out |-> "relocate", i |-> 1, h |-> h1]
        ELSE IF n0 < PROBE_SIZE THEN [st |-> in0, out |-> "relocate", i |-> 0, h |-> h0]
        ELSE [st |-> st, out |-> "resize", i |-> -1, h |-> -1]

\* the bucket work of add under x's two locks:
\* [st, out, i, h] with out one of "false", "true", "relocate", "resize"
AddChoice(st, x) ==
    LET h0 == phash0(st, x)
        h1 == phash1(st, x)
        n0 == Len(st.table0[h0])
        n1 == Len(st.table1[h1])
        in0 == [st EXCEPT !.table0[h0] = Append(@, x)]
        in1 == [st EXCEPT !.table1[h1] = Append(@, x)]
    IN  IF present(st, x) THEN [st |-> st, out |-> "false", i |-> -1, h |-> -1]
        ELSE IF n0 < THRESHOLD THEN [st |-> in0, out |-> "true", i |-> -1, h |-> -1]
        ELSE IF n1 < THRESHOLD THEN [st |-> in1, out |-> "true", i |-> -1, h |-> -1]
        ELSE IF n0 < PROBE_SIZE THEN [st |-> in0, out |-> "relocate", i |-> 0, h |-> h0]
        ELSE IF n1 < PROBE_SIZE THEN [st |-> in1, out |-> "relocate", i |-> 1, h |-> h1]
        ELSE [st |-> st, out |-> "resize", i |-> -1, h |-> -1]

\* add: bucket work, release, and return, relocate or resize
AddBody(t) ==
    /\ p_th[t].pc = "body" /\ p_th[t].op = "add"
    /\ LET x == p_th[t].x
           c == AddChoice(p_set, x)
           ins == p_th[t].inserted \/ c.st # p_set
       IN  /\ p_set' = c.st
           /\ p_locks' = ReleaseBoth(p_locks, p_set, x)
           /\ p_rw' = [p_rw EXCEPT !.readers = @ \ {t}]
           /\ IF c.out \in {"false", "true"}
              THEN /\ p_th' = [p_th EXCEPT ![t] =
                                 Return([@ EXCEPT !.inserted = ins], c.out = "true")]
                   /\ p_lin' = LinReturn(p_lin, t, c.out = "true")
              ELSE /\ p_th' = [p_th EXCEPT ![t] =
                                 [@ EXCEPT !.pc = IF c.out = "resize"
                                                  THEN "resize" ELSE "relocate",
                                           !.lk = Empty, !.inserted = ins,
                                           !.i = c.i, !.h = c.h,
                                           !.epoch = p_set.table_size]]
                   /\ p_lin' = p_lin
    /\ UNCHANGED <<p_started, p_before, p_dup>>

\* relocate: std::shared_lock resize_guard(resize_mutex)
RelocateShared(t) ==
    /\ p_th[t].pc = "relocate"
    /\ p_rw.writer = 0
    /\ p_rw' = [p_rw EXCEPT !.readers = @ \cup {t}]
    /\ p_th' = [p_th EXCEPT ![t].pc = "relocate_size", ![t].round = 0]
    /\ UNCHANGED <<p_set, p_locks, p_started, p_before, p_dup, p_lin>>

\* relocate: the loop test and the unlocked iSet.size() < THRESHOLD
RelocateSize(t) ==
    /\ p_th[t].pc = "relocate_size"
    /\ LET r == p_th[t]
           iSet == Bucket(p_set, r.i, r.h)
       IN  IF r.round >= LIMIT
           THEN /\ p_rw' = [p_rw EXCEPT !.readers = @ \ {t}]
                /\ p_th' = [p_th EXCEPT ![t].pc = "resize", ![t].i = -1,
                                        ![t].h = -1, ![t].round = 0,
                                        ![t].epoch = p_set.table_size]
                /\ p_lin' = p_lin
           ELSE IF Len(iSet) < THRESHOLD
           THEN /\ p_rw' = [p_rw EXCEPT !.readers = @ \ {t}]
                /\ p_th' = [p_th EXCEPT ![t] = Return(@, TRUE)]
                /\ p_lin' = LinReturn(p_lin, t, TRUE)
           ELSE /\ p_rw' = p_rw
                /\ p_th' = [p_th EXCEPT ![t].pc = "relocate_front"]
                /\ p_lin' = p_lin
    /\ UNCHANGED <<p_set, p_locks, p_started, p_before, p_dup>>

\* what the unlocked iSet.front() can yield: the oldest element; any value
\* when the list is empty or another thread is working on it
RacyFront(iSet, owner, t) ==
    IF iSet = <<>> \/ owner \notin {0, t} THEN ProbeKeys ELSE {Head(iSet)}

\* an hj taken with the hash of y's own table
OtherHashSame(st, i, y) == IF i = 0 THEN phash0(st, y) ELSE phash1(st, y)

\* relocate: hj, the hash of y in the alternate table
OtherHash(st, i, y) == IF i = 0 THEN phash1(st, y) ELSE phash0(st, y)

\* relocate: T y = iSet.front() and hj
RelocateFront(t) ==
    /\ p_th[t].pc = "relocate_front"
    /\ LET r == p_th[t]
           iSet == Bucket(p_set, r.i, r.h)
           owner == IF r.i = 0 THEN p_locks.l0[r.h] ELSE p_locks.l1[r.h]
       IN  \E y \in RacyFront(iSet, owner, t) :
             p_th' = [p_th EXCEPT ![t].pc = "lock0", ![t].y = y, ![t].lk = y,
                         ![t].hj = OtherHash(p_set, r.i, y)]
    /\ UNCHANGED <<p_set, p_locks, p_rw, p_started, p_before, p_dup, p_lin>>

\* a round that does not put y back when its destination is full
RelocateRoundDrops(st, i, hi, y, hj) ==
    LET j == 1 - i
        iSet == Bucket(st, i, hi)
        jSet == Bucket(st, j, hj)
        gone == SetBucket(st, i, hi, Erase(iSet, y))
        moved == SetBucket(gone, j, hj, Append(Bucket(gone, j, hj), y))
    IN  IF InList(iSet, y)
        THEN IF Len(jSet) < THRESHOLD
             THEN [st |-> moved, out |-> "true", i |-> i, h |-> hi]
             ELSE IF Len(jSet) < PROBE_SIZE
             THEN [st |-> moved, out |-> "next", i |-> j, h |-> hj]
             ELSE [st |-> gone, out |-> "false", i |-> i, h |-> hi]
        ELSE IF Len(iSet) >= THRESHOLD
             THEN [st |-> st, out |-> "next", i |-> i, h |-> hi]
             ELSE [st |-> st, out |-> "true", i |-> i, h |-> hi]

\* a round that appends y to its destination although y has left the source
RelocateRoundReinserts(st, i, hi, y, hj) ==
    LET j == 1 - i
        iSet == Bucket(st, i, hi)
        jSet == Bucket(st, j, hj)
        gone == SetBucket(st, i, hi, Erase(iSet, y))
        moved == SetBucket(gone, j, hj, Append(Bucket(gone, j, hj), y))
    IN  IF InList(iSet, y)
        THEN IF Len(jSet) < THRESHOLD
             THEN [st |-> moved, out |-> "true", i |-> i, h |-> hi]
             ELSE IF Len(jSet) < PROBE_SIZE
             THEN [st |-> moved, out |-> "next", i |-> j, h |-> hj]
             ELSE [st |-> SetBucket(gone, i, hi, Append(Bucket(gone, i, hi), y)),
                   out |-> "false", i |-> i, h |-> hi]
        ELSE IF Len(jSet) < THRESHOLD
             THEN [st |-> SetBucket(st, j, hj, Append(jSet, y)),
                   out |-> "true", i |-> i, h |-> hi]
             ELSE IF Len(iSet) >= THRESHOLD
             THEN [st |-> st, out |-> "next", i |-> i, h |-> hi]
             ELSE [st |-> st, out |-> "true", i |-> i, h |-> hi]

\* one round of relocate under y's two locks:
\* [st, out, i, h] with out one of "true", "false", "next"
RelocateRound(st, i, hi, y, hj) ==
    LET j == 1 - i
        iSet == Bucket(st, i, hi)
        jSet == Bucket(st, j, hj)
        gone == SetBucket(st, i, hi, Erase(iSet, y))
        moved == SetBucket(gone, j, hj, Append(Bucket(gone, j, hj), y))
    IN  IF InList(iSet, y)
        THEN IF Len(jSet) < THRESHOLD
             THEN [st |-> moved, out |-> "true", i |-> i, h |-> hi]
             ELSE IF Len(jSet) < PROBE_SIZE
             THEN [st |-> moved, out |-> "next", i |-> j, h |-> hj]
             ELSE [st |-> SetBucket(gone, i, hi, Append(Bucket(gone, i, hi), y)),
                   out |-> "false", i |-> i, h |-> hi]
        ELSE IF Len(iSet) >= THRESHOLD
             THEN [st |-> st, out |-> "next", i |-> i, h |-> hi]
             ELSE [st |-> st, out |-> "true", i |-> i, h |-> hi]

\* relocate: the round's bucket work, release(y), and loop or return
RelocateBody(t) ==
    /\ p_th[t].pc = "relocate_body"
    /\ LET r == p_th[t]
           c == RelocateRound(p_set, r.i, r.h, r.y, r.hj)
           stale == r.stale_move \/
                    (r.epoch # p_set.table_size /\ c.st # p_set /\ c.out # "false")
       IN  /\ p_set' = c.st
           /\ p_locks' = ReleaseBoth(p_locks, p_set, r.y)
           /\ IF c.out = "true"
              THEN /\ p_rw' = [p_rw EXCEPT !.readers = @ \ {t}]
                   /\ p_th' = [p_th EXCEPT ![t] =
                                 Return([@ EXCEPT !.stale_move = stale], TRUE)]
                   /\ p_lin' = LinReturn(p_lin, t, TRUE)
              ELSE IF c.out = "false"
              THEN /\ p_rw' = [p_rw EXCEPT !.readers = @ \ {t}]
                   /\ p_th' = [p_th EXCEPT ![t].pc = "resize", ![t].lk = Empty,
                                  ![t].y = Empty, ![t].hj = -1, ![t].i = -1,
                                  ![t].h = -1, ![t].round = 0,
                                  ![t].epoch = p_set.table_size]
                   /\ p_lin' = p_lin
              ELSE /\ p_rw' = p_rw
                   /\ p_th' = [p_th EXCEPT ![t].pc = "relocate_size",
                                  ![t].lk = Empty, ![t].y = Empty, ![t].hj = -1,
                                  ![t].i = c.i, ![t].h = c.h,
                                  ![t].round = r.round + 1,
                                  ![t].stale_move = stale]
                   /\ p_lin' = p_lin
    /\ UNCHANGED <<p_started, p_before, p_dup>>

\* resize: int old_capacity = table_size, read before the lock
ResizeRead(t) ==
    /\ p_th[t].pc = "resize"
    /\ p_th' = [p_th EXCEPT ![t].pc = "resize_lock",
                            ![t].old_capacity = p_set.table_size]
    /\ UNCHANGED <<p_set, p_locks, p_rw, p_started, p_before, p_dup, p_lin>>

\* an exclusive lock that is granted while other threads have shared holds
ResizeLockOverReaders(t) ==
    /\ p_th[t].pc = "resize_lock"
    /\ p_rw.writer = 0
    /\ p_rw' = [p_rw EXCEPT !.writer = t]
    /\ p_th' = [p_th EXCEPT ![t].pc = "resize_body"]
    /\ UNCHANGED <<p_set, p_locks, p_started, p_before, p_dup, p_lin>>

\* resize: std::unique_lock resize_guard(resize_mutex)
ResizeLock(t) ==
    /\ p_th[t].pc = "resize_lock"
    /\ p_rw.writer = 0 /\ p_rw.readers = {}
    /\ p_rw' = [p_rw EXCEPT !.writer = t]
    /\ p_th' = [p_th EXCEPT ![t].pc = "resize_body"]
    /\ UNCHANGED <<p_set, p_locks, p_started, p_before, p_dup, p_lin>>

\* resize under the exclusive lock, its unlock, and add's `return add(x)`
ResizeBody(t) ==
    /\ p_th[t].pc = "resize_body"
    /\ IF p_set.table_size # p_th[t].old_capacity
       THEN UNCHANGED <<p_set, p_locks>>
       ELSE \E sd \in ProbeSeeds, sd1 \in ProbeSeeds :
              /\ p_set' = ProbeRebuild(p_set, sd, sd1)
              /\ p_locks' = NewLocks(2 * p_set.table_size)
    /\ p_rw' = [p_rw EXCEPT !.writer = 0]
    /\ p_th' = [p_th EXCEPT ![t].pc = "shared", ![t].old_capacity = 0,
                            ![t].epoch = 0]
    /\ UNCHANGED <<p_started, p_before, p_dup, p_lin>>

ProbeStep(t) ==
    \/ LockShared(t)
    \/ Lock0(t)
    \/ Lock1(t)
    \/ ContainsBody(t)
    \/ RemoveBody(t)
    \/ AddBody(t)
    \/ RelocateShared(t)
    \/ RelocateSize(t)
    \/ RelocateFront(t)
    \/ RelocateBody(t)
    \/ ResizeRead(t)
    \/ ResizeLock(t)
    \/ ResizeBody(t)

ProbeNext ==
    \/ Populate /\ UNCHANGED <<b_vars, s_vars, c_vars, q_vars, m_vars, x_vars>>
    \/ \E t \in Threads : Call(t) /\ UNCHANGED <<b_vars, s_vars, c_vars, q_vars, m_vars, x_vars>>
    \/ \E t \in Threads : ProbeStep(t) /\ UNCHANGED <<b_vars, s_vars, c_vars, q_vars, m_vars, x_vars>>

RECURSIVE SumComputed(_)
\* the driver's sum over computed_size
SumComputed(T) ==
    IF T = {} THEN 0
    ELSE LET t == CHOOSE u \in T : TRUE
         IN  p_th[t].computed_size + SumComputed(T \ {t})

\* C2: every history of the probe-set variant is linearizable: some
\* sequential set execution, consistent with the real-time order of the
\* calls, gives every return value (from a start without duplicates).
ProbeLinearizable == ~p_dup => p_lin # {}

\* C3: once all threads are between calls, size() equals the size before
\* the run plus the sum of the threads' counters.
ProbeSizeReconciles ==
    (~p_dup /\ \A t \in Threads : p_th[t].pc = "idle") =>
        ProbeCount(p_set) = p_before + SumComputed(Threads)

\* C4: no deadlock: whenever some call is unfinished, some thread can step.
ProbeNoDeadlock ==
    (\E t \in Threads : p_th[t].pc # "idle") =>
        ENABLED (\E t \in Threads : ProbeStep(t))

\* a thread waits for a bucket mutex another thread holds, under shared holds
ProbeLockContention ==
    \E t \in Threads, u \in Threads :
        /\ t # u
        /\ p_th[t].pc = "lock0"
        /\ p_locks.l0[phash0(p_set, p_th[t].lk)] = u
        /\ p_rw.readers = {t, u}

\* C5: an add that appended x to a bucket returns true; add returns false
\* only when it inserted nothing.
ProbeInsertingAddReturnsTrue ==
    \A t \in Threads :
        (~p_dup /\ p_th[t].pc = "idle" /\ p_th[t].op = "add" /\
         p_th[t].ret = "false") => ~p_th[t].inserted

\* C6: resize preserves membership: every element stored when resize holds
\* resize_mutex exclusively is stored when it releases it.
ProbeResizeKeepsElements ==
    [][(p_rw.writer # 0 /\ p_rw'.writer = 0 /\ ~p_dup) =>
          ProbeStored(p_set) \subseteq ProbeStored(p_set')]_p_vars

ProbeElementsAtHome ==
    p_rw.writer = 0 =>
        \A k \in 0 .. p_set.table_size - 1 :
            /\ \A n \in 1 .. Len(p_set.table0[k]) :
                   phash0(p_set, p_set.table0[k][n]) = k
            /\ \A n \in 1 .. Len(p_set.table1[k]) :
                   phash1(p_set, p_set.table1[k][n]) = k

\* a relocation that moved an element from a bucket whose index was
\* computed before another thread's resize
ProbeStaleRelocation ==
    /\ p_rw.writer = 0
    /\ \E t \in Threads : p_th[t].stale_move

\* C12: from an empty set (or one filled with distinct values), under any
\* interleaving of add, remove and contains with their relocations and
\* resizes, no value is stored twice across the buckets of both tables.
ProbeNoDuplicates ==
    ~p_dup => ProbeCount(p_set) = Cardinality(ProbeStored(p_set))

\* an add that inserted, relocated and resized, other values being stored
ProbeResizedWithoutDuplicates ==
    /\ ~p_dup
    /\ p_set.table_size > InitProbe
    /\ \E t \in Threads : p_th[t].pc = "idle" /\ p_th[t].inserted
    /\ Cardinality(ProbeStored(p_set)) >= 2

\* C13: populate inserts pairwise distinct elements: before the threads
\* start the number of stored elements is the number of stored values.
ProbePopulateDistinct ==
    ~p_started => ProbeCount(p_set) = Cardinality(ProbeStored(p_set))

\* C16: a resize() call doubles table_size only if table_size still has the
\* value it had when the calling thread decided to resize; a thread whose
\* decision another thread's resize has overtaken returns without doubling.
ProbeResizeOncePerDecision ==
    [][\A t \in Threads :
          (p_th[t].pc = "resize_body" /\ p_th'[t].pc = "shared" /\
           p_set'.table_size # p_set.table_size) =>
              p_th[t].epoch = p_set.table_size]_p_vars

\* the positions inside the bucket-work sections of contains, add, remove
\* and relocate
BucketWork ==
    {"lock0", "lock1", "body", "relocate_size", "relocate_front",
     "relocate_body"}

\* C17: while a thread holds resize_mutex exclusively no other thread is in
\* a bucket-work section, and seed, seed1 and table_size change only in a
\* step of that exclusive section.
ProbeResizeExclusive ==
    /\ [](p_rw.writer # 0 =>
            \A t \in Threads : p_th[t].pc \notin BucketWork)
    /\ [][(p_set'.seed # p_set.seed \/ p_set'.seed1 # p_set.seed1 \/
           p_set'.table_size # p_set.table_size) =>
              \E t \in Threads :
                  p_rw.writer = t /\ p_th[t].pc = "resize_body"]_p_vars

\* resize holds resize_mutex exclusively while another thread's call waits
\* for its shared hold
ProbeResizeBlocksCall ==
    \E t \in Threads, u \in Threads :
        /\ t # u
        /\ p_rw.writer = t
        /\ p_th[u].pc \in {"shared", "relocate"}

\* C18: table_size never decreases: each of its changes is an exact
\* doubling made by one resize call that holds resize_mutex exclusively.
ProbeTableSizeDoubles ==
    [][p_set'.table_size # p_set.table_size =>
          /\ p_set'.table_size = 2 * p_set.table_size
          /\ p_rw.readers = {}
          /\ \E t \in Threads :
                 p_rw.writer = t /\ p_th[t].pc = "resize_body"]_p_vars

\* table_size after two resizes
ProbeDoubledTwice == p_set.table_size = 4 * InitProbe

\* C19: outside resize's exclusive section a bucket changes only in a step
\* of a thread that holds the bucket's mutex and a shared hold on
\* resize_mutex; this includes the bucket changes of populate.
ProbeMutationsUnderLocks ==
    [][(p_rw.writer = 0 /\ p_set'.table_size = p_set.table_size) =>
          \A h \in 0 .. p_set.table_size - 1 :
              /\ p_set'.table0[h] # p_set.table0[h] =>
                     \E t \in Threads : /\ p_locks.l0[h] = t
                                         /\ t \in p_rw.readers
                                         /\ p_th'[t] # p_th[t]
              /\ p_set'.table1[h] # p_set.table1[h] =>
                     \E t \in Threads : /\ p_locks.l1[h] = t
                                         /\ t \in p_rw.readers
                                         /\ p_th'[t] # p_th[t]]_p_vars

\* the buckets <<i, h>> of a set
ProbeBuckets(st) == {0, 1} \X (0 .. st.table_size - 1)

\* C26: add(x) of an absent x, the sizes read under x's two bucket locks,
\* appends x at the back of table0[hash0(x)] if that holds fewer than
\* THRESHOLD, else of table1[hash1(x)] if that holds fewer than THRESHOLD,
\* else of table0[hash0(x)] if below PROBE_SIZE and goes on to
\* relocate(0, hash0(x)), else of table1[hash1(x)] if below PROBE_SIZE and
\* goes on to relocate(1, hash1(x)); else it appends nothing and resizes.
\* When it appends exactly one bucket changes.
ProbeAddTargets ==
    \A t \in Threads :
        (p_th[t].pc = "body" /\ p_th[t].op = "add" /\
         ~present(p_set, p_th[t].x)) =>
            LET x == p_th[t].x
                h0 == phash0(p_set, x)
                h1 == phash1(p_set, x)
                n0 == Len(p_set.table0[h0])
                n1 == Len(p_set.table1[h1])
                c == AddChoice(p_set, x)
                tgt == IF n0 < THRESHOLD THEN <<0, h0>>
                       ELSE IF n1 < THRESHOLD THEN <<1, h1>>
                       ELSE IF n0 < PROBE_SIZE THEN <<0, h0>>
                       ELSE IF n1 < PROBE_SIZE THEN <<1, h1>>
                       ELSE <<-1, -1>>
            IN  /\ p_locks.l0[h0] = t /\ p_locks.l1[h1] = t
                /\ IF tgt = <<-1, -1>>
                   THEN c.st = p_set /\ c.out = "resize"
                   ELSE /\ Bucket(c.st, tgt[1], tgt[2]) =
                                Append(Bucket(p_set, tgt[1], tgt[2]), x)
                        /\ \A b \in ProbeBuckets(p_set) \ {tgt} :
                                Bucket(c.st, b[1], b[2]) = Bucket(p_set, b[1], b[2])
                        /\ IF n0 < THRESHOLD \/ n1 < THRESHOLD
                           THEN c.out = "true"
                           ELSE c.out = "relocate" /\ <<c.i, c.h>> = tgt

\* an add appended to a bucket at THRESHOLD and is about to call relocate
ProbeAddedForRelocate ==
    \E t \in Threads :
        /\ p_th[t].pc = "relocate"
        /\ p_th[t].i \in {0, 1}
        /\ Len(Bucket(p_set, p_th[t].i, p_th[t].h)) > THRESHOLD
        /\ Bucket(p_set, p_th[t].i, p_th[t].h)[
                Len(Bucket(p_set, p_th[t].i, p_th[t].h))] = p_th[t].x

\* how often each key is stored, over all buckets
ProbeBag(st) ==
    [y \in ProbeKeys |->
        Cardinality(UNION {{<<b, k>> : k \in {k \in DOMAIN Bucket(st, b[1], b[2]) :
                                                Bucket(st, b[1], b[2])[k] = y}} :
                           b \in ProbeBuckets(st)})]

\* C28: a round of relocate stores the same elements as before it: it
\* changes nothing, or moves the one element y from its source bucket to
\* the back of its alternate bucket, or, the alternate bucket holding
\* PROBE_SIZE elements, takes y out of the source and puts it back.
ProbeRelocateKeepsElements ==
    \A t \in Threads :
        p_th[t].pc = "relocate_body" =>
            LET r == p_th[t]
                j == 1 - r.i
                iSet == Bucket(p_set, r.i, r.h)
                jSet == Bucket(p_set, j, r.hj)
                c == RelocateRound(p_set, r.i, r.h, r.y, r.hj)
            IN  /\ ProbeBag(c.st) = ProbeBag(p_set)
                /\ \A b \in ProbeBuckets(p_set) \ {<<r.i, r.h>>, <<j, r.hj>>} :
                        Bucket(c.st, b[1], b[2]) = Bucket(p_set, b[1], b[2])
                /\ \/ c.st = p_set
                   \/ /\ Bucket(c.st, r.i, r.h) = Erase(iSet, r.y)
                      /\ Bucket(c.st, j, r.hj) = Append(jSet, r.y)
                   \/ /\ c.out = "false"
                      /\ Len(jSet) >= PROBE_SIZE
                      /\ Bucket(c.st, r.i, r.h) = Append(Erase(iSet, r.y), r.y)
                      /\ Bucket(c.st, j, r.hj) = jSet

\* a relocate round finds the alternate bucket of y full
ProbeRelocateDestinationFull ==
    \E t \in Threads :
        /\ p_th[t].pc = "relocate_body"
        /\ InList(Bucket(p_set, p_th[t].i, p_th[t].h), p_th[t].y)
        /\ Len(Bucket(p_set, 1 - p_th[t].i, p_th[t].hj)) >= PROBE_SIZE

\* C29: when y is no longer in the source bucket once relocate holds y's
\* bucket locks, the round changes no bucket; relocate returns true if the
\* source bucket is below THRESHOLD and otherwise goes on to the next
\* round with the same source bucket.
ProbeRelocateVictimGone ==
    \A t \in Threads :
        (p_th[t].pc = "relocate_body" /\
         ~InList(Bucket(p_set, p_th[t].i, p_th[t].h), p_th[t].y)) =>
            LET r == p_th[t]
                c == RelocateRound(p_set, r.i, r.h, r.y, r.hj)
            IN  /\ c.st = p_set
                /\ c.out = IF Len(Bucket(p_set, r.i, r.h)) < THRESHOLD
                           THEN "true" ELSE "next"
                /\ <<c.i, c.h>> = <<r.i, r.h>>

\* relocate holds y's locks and y was taken out of the source bucket, which
\* still holds THRESHOLD elements or more
ProbeVictimRemoved ==
    \E t \in Threads :
        /\ p_th[t].pc = "relocate_body"
        /\ ~InList(Bucket(p_set, p_th[t].i, p_th[t].h), p_th[t].y)
        /\ Len(Bucket(p_set, p_th[t].i, p_th[t].h)) >= THRESHOLD

\* the bucket mutexes thread t owns
ProbeOwned(t) ==
    {b \in ProbeBuckets(p_set) :
        (IF b[1] = 0 THEN p_locks.l0[b[2]] ELSE p_locks.l1[b[2]]) = t}

\* C30: a thread that has returned from contains, add, remove, relocate or
\* resize, or ended a relocate round, owns no bucket mutex; after a return
\* it has no hold on resize_mutex; and the mutexes a call is about to
\* unlock are the ones it locked: the two buckets of its element.
ProbeLocksReleased ==
    \A t \in Threads :
        /\ p_th[t].pc \in {"idle", "shared", "lock0", "relocate",
                            "relocate_size", "relocate_front", "resize",
                            "resize_lock", "resize_body"} =>
                ProbeOwned(t) = {}
        /\ p_th[t].pc \in {"idle", "shared", "relocate", "resize",
                            "resize_lock"} =>
                t \notin p_rw.readers /\ p_rw.writer # t
        /\ p_th[t].pc \in {"body", "relocate_body"} =>
                /\ ProbeOwned(t) = {<<0, phash0(p_set, p_th[t].lk)>>,
                                    <<1, phash1(p_set, p_th[t].lk)>>}
                /\ t \in p_rw.readers

\* a thread has ended a relocate round and is in the next one
ProbeRoundEnded ==
    \E t \in Threads :
        /\ p_th[t].pc = "relocate_size"
        /\ p_th[t].round > 0
        /\ ProbeOwned(t) = {}

\* the thread is at a read of relocate that precedes acquire(y): the size
\* of bucket (i, h) at the start of a round, or its front element
ProbeRelocateReading(t) ==
    \/ p_th[t].pc = "relocate_size" /\ p_th[t].round < LIMIT
    \/ p_th[t].pc = "relocate_front"

\* C35: every read of a bucket's contents by relocate, its size and its
\* front element at the start of a round, happens while the reading thread
\* holds that bucket's mutex.
ProbeRelocateReadsLocked ==
    \A t \in Threads :
        ProbeRelocateReading(t) =>
            (IF p_th[t].i = 0 THEN p_locks.l0[p_th[t].h]
             ELSE p_locks.l1[p_th[t].h]) = t

\* C36: a thread holds or waits on a bucket mutex only while it has a
\* shared hold on resize_mutex, and resize replaces locks0 and locks1 only
\* in states where no thread holds or waits on a bucket mutex: no mutex is
\* destroyed while locked and none of a replaced array is unlocked later.
ProbeLockArraysReplacedFree ==
    /\ [](\A t \in Threads :
            (ProbeOwned(t) # {} \/ p_th[t].pc \in {"lock0", "lock1"}) =>
                t \in p_rw.readers)
    /\ [][DOMAIN p_locks'.l0 # DOMAIN p_locks.l0 =>
            /\ DOMAIN p_locks'.l1 # DOMAIN p_locks.l1
            /\ \A t \in Threads :
                /\ ProbeOwned(t) = {}
                /\ p_th[t].pc \notin {"lock0", "lock1"}]_p_vars

\* resize is about to replace the lock arrays while another thread is
\* inside a call, waiting for its shared hold on resize_mutex
ProbeReplacingLockArrays ==
    \E t \in Threads, u \in Threads :
        /\ t # u
        /\ p_th[t].pc = "resize_body"
        /\ p_set.table_size = p_th[t].old_capacity
        /\ p_th[u].pc \in {"shared", "relocate"}

(***************************************************************************)
(* StripedCuckooHashSet of stripedCuckooHash.cpp called by one thread:     *)
(* every lock is free when it is asked for, the front of a bucket is its   *)
(* oldest element, and a call runs from its entry to its return.           *)
(***************************************************************************)
\* the constructor argument `size`
InitSolo == 3

\* relocate(i, hi) from round `round` on: [st, ret]
RECURSIVE ProbeRelocate(_, _, _, _)
ProbeRelocate(st, i, hi, round) ==
    IF round >= LIMIT THEN [st |-> st, ret |-> FALSE]
    ELSE IF Len(Bucket(st, i, hi)) < THRESHOLD THEN [st |-> st, ret |-> TRUE]
    ELSE LET y == Head(Bucket(st, i, hi))
             c == RelocateRound(st, i, hi, y, OtherHash(st, i, y))
         IN  IF c.out = "true" THEN [st |-> c.st, ret |-> TRUE]
             ELSE IF c.out = "false" THEN [st |-> c.st, ret |-> FALSE]
             ELSE ProbeRelocate(c.st, c.i, c.h, round + 1)

\* resize(): the sets it can leave, one per pair of drawn seeds
ProbeResize(st) ==
    {ProbeRebuild(st, sd, sd1) : <<sd, sd1>> \in Seeds \X Seeds}

\* add(x): outcomes [st, ret, relocated, i, h]; relocated says that the
\* add returned after relocate(i, h) returned true
RECURSIVE ProbeAdd(_, _)
ProbeAdd(st, x) ==
    LET c == AddChoice(st, x)
        r == ProbeRelocate(c.st, c.i, c.h, 0)
    IN  IF c.out \in {"false", "true"}
        THEN {[st |-> c.st, ret |-> (c.out = "true"), relocated |-> FALSE,
               i |-> -1, h |-> -1]}
        ELSE IF c.out = "relocate" /\ r.ret
        THEN {[st |-> r.st, ret |-> TRUE, relocated |-> TRUE,
               i |-> c.i, h |-> c.h]}
        ELSE UNION {ProbeAdd(z, x) :
                    z \in ProbeResize(IF c.out = "relocate" THEN r.st ELSE c.st)}

\* remove(x): [st, ret]
ProbeRemove(st, x) ==
    LET h0 == phash0(st, x)
        h1 == phash1(st, x)
    IN  IF InList(st.table0[h0], x)
        THEN [st |-> [st EXCEPT !.table0[h0] = Erase(@, x)], ret |-> TRUE]
        ELSE IF InList(st.table1[h1], x)
        THEN [st |-> [st EXCEPT !.table1[h1] = Erase(@, x)], ret |-> TRUE]
        ELSE [st |-> st, ret |-> FALSE]

SoloNoCall == [op |-> "none", x |-> Empty, ret |-> FALSE, relocated |-> FALSE,
               i |-> -1, h |-> -1]

SoloAddCall ==
    \E x \in Keys : \E o \in ProbeAdd(q_set, x) :
        /\ q_set' = o.st
        /\ q_call' = [op |-> "add", x |-> x, ret |-> o.ret,
                      relocated |-> o.relocated, i |-> o.i, h |-> o.h]

SoloRemoveCall ==
    \E x \in Keys :
        LET o == ProbeRemove(q_set, x)
        IN  /\ q_set' = o.st
            /\ q_call' = [SoloNoCall EXCEPT !.op = "remove", !.x = x,
                                            !.ret = o.ret]

SoloContainsCall ==
    \E x \in Keys :
        /\ q_call' = [SoloNoCall EXCEPT !.op = "contains", !.x = x,
                                        !.ret = present(q_set, x)]
        /\ UNCHANGED q_set

SoloNext ==
    \/ SoloAddCall /\ UNCHANGED <<b_vars, s_vars, p_vars, c_vars, m_vars, x_vars>>
    \/ SoloRemoveCall /\ UNCHANGED <<b_vars, s_vars, p_vars, c_vars, m_vars, x_vars>>
    \/ SoloContainsCall /\ UNCHANGED <<b_vars, s_vars, p_vars, c_vars, m_vars, x_vars>>

\* C27: with one thread, whenever relocate(i, h) returns true the bucket
\* (i, h) it was called for holds fewer than THRESHOLD elements at that
\* moment, which is the moment add returns.
SoloRelocatedBelowThreshold ==
    (q_call.op = "add" /\ q_call.relocated) =>
        Len(Bucket(q_set, q_call.i, q_call.h)) < THRESHOLD

(***************************************************************************)
(* StripedCuckooHashSet of striped2.cpp, called by several threads after   *)
(* populate.  Threads interleave at the lock operations; what a call does  *)
(* between its last lock and its first unlock is one step.  resize() takes *)
(* global_resize_lock and no bucket mutex, so its statements interleave    *)
(* with the other threads' calls.                                          *)
(***************************************************************************)
\* the argument n of populate
PopulateN == 2

\* the keys populate and the threads draw: multiples of 3, which collide
\* under x % 3
StripedKeys == {3 * k : k \in 0 .. MaxKey}

\* locks0 and locks1 as constructed: the owner of each mutex, 0 = free
StripedLocks(n) ==
    [locks0 |-> [i \in 0 .. n - 1 |-> 0], locks1 |-> [i \in 0 .. n - 1 |-> 0]]

\* locks0.resize(n), locks1.resize(n): the mutexes kept, new ones free
GrowLocks(locks, n) ==
    [locks0 |-> [i \in 0 .. n - 1 |->
                    IF i \in DOMAIN locks.locks0 THEN locks.locks0[i] ELSE 0],
     locks1 |-> [i \in 0 .. n - 1 |->
                    IF i \in DOMAIN locks.locks1 THEN locks.locks1[i] ELSE 0]]

acquireLocks0First(st, x) ==
    LET h0 == hash0(st, x)
        h1 == hash1(st, x)
    IN  IF h0 = h1 THEN << <<0, h0>> >>
        ELSE << <<0, h0>>, <<1, h1>> >>

\* acquire(x): the mutexes <<table, index>> in the order they are locked
acquire(st, x) ==
    LET h0 == hash0(st, x)
        h1 == hash1(st, x)
    IN  IF h0 < h1 THEN << <<0, h0>>, <<1, h1>> >>
        ELSE IF h1 < h0 THEN << <<1, h1>>, <<0, h0>> >>
        ELSE << <<0, h0>> >>

releaseFirstOnly(st, x) ==
    LET h0 == hash0(st, x)
        h1 == hash1(st, x)
    IN  IF h0 = h1 THEN << <<0, h0>> >>
        ELSE << <<1, h1>> >>

\* release(x): the mutexes in the order they are unlocked
release(st, x) ==
    LET h0 == hash0(st, x)
        h1 == hash1(st, x)
    IN  IF h0 = h1 THEN << <<0, h0>> >>
        ELSE << <<1, h1>>, <<0, h0>> >>

Owner(locks, l) ==
    IF l[1] = 0 THEN locks.locks0[l[2]] ELSE locks.locks1[l[2]]

SetOwner(locks, l, t) ==
    IF l[1] = 0 THEN [locks EXCEPT !.locks0[l[2]] = t]
    ELSE [locks EXCEPT !.locks1[l[2]] = t]

\* what hash0 and hash1 read: table_size and the two seeds
Seen(st) == [table_size |-> st.table_size, seed |-> st.seed, seed1 |-> st.seed1]

\* a thread between calls.  seen is table_size and the seeds when acquire
\* computed the indices, todo the mutexes acquire has still to lock, order the mutexes
\* locked so far, rel the mutexes release has still to unlock, unlocked the
\* mutexes unlocked so far, placed the local of add, old the tables
\* resize() moved out.  The result of a call is returned to the driver,
\* whose counters the model does not follow.
StripedIdle ==
    [pc |-> "idle", op |-> "none", x |-> Empty,
     seen |-> Seen(NewSet(0, 0, 0)), todo |-> <<>>,
     order |-> <<>>, rel |-> <<>>, unlocked |-> <<>>, placed |-> TRUE,
     calls |-> 0, old |-> NewSet(0, 0, 0)]

\* the arrays are those the thread computed its indices for
Current(t) ==
    /\ c_th[t].seen = Seen(c_set)
    /\ DOMAIN c_set.table0 = 0 .. c_th[t].seen.table_size - 1
    /\ DOMAIN c_set.table1 = 0 .. c_th[t].seen.table_size - 1
    /\ DOMAIN c_locks.locks0 = 0 .. c_th[t].seen.table_size - 1
    /\ DOMAIN c_locks.locks1 = 0 .. c_th[t].seen.table_size - 1

\* main: set.populate(n), before any thread is started; a populate that
\* blocks inside a nested resize starts no thread
StripedPopulate ==
    /\ c_pop < PopulateN
    /\ \E x \in StripedKeys : \E o \in StripedAdd(c_set, x) :
        /\ ~o.hung
        /\ c_set' = o.st
        /\ c_locks' = StripedLocks(o.st.table_size)
        /\ c_pop' = IF o.ret THEN c_pop + 1 ELSE c_pop
    /\ UNCHANGED <<c_global, c_th, c_ub>>

\* a thread of the driver calls add, remove or contains; acquire(x)
\* computes its two indices
StripedCall(t) ==
    /\ ~c_ub
    /\ c_pop = PopulateN
    /\ c_th[t].pc = "idle"
    /\ c_th[t].calls < MaxCalls
    /\ \E op \in {"add", "remove", "contains"}, x \in StripedKeys :
        c_th' = [c_th EXCEPT ![t] =
                    [@ EXCEPT !.pc = "acquire", !.op = op, !.x = x,
                              !.seen = Seen(c_set),
                              !.todo = acquire(c_set, x), !.order = <<>>,
                              !.rel = <<>>, !.unlocked = <<>>]]
    /\ UNCHANGED <<c_set, c_locks, c_global, c_pop, c_ub>>

\* acquire(x): the next lock() of a bucket mutex
StripedLock(t) ==
    /\ ~c_ub
    /\ c_th[t].pc = "acquire"
    /\ Current(t)
    /\ Owner(c_locks, Head(c_th[t].todo)) = 0
    /\ c_locks' = SetOwner(c_locks, Head(c_th[t].todo), t)
    /\ c_th' = [c_th EXCEPT ![t] =
                [@ EXCEPT !.pc = IF Tail(c_th[t].todo) = <<>> THEN "body"
                                 ELSE "acquire",
                          !.order = Append(@, Head(c_th[t].todo)),
                          !.todo = Tail(@)]]
    /\ UNCHANGED <<c_set, c_global, c_pop, c_ub>>

\* contains(x) up to the entry of release(x)
StripedContainsBody(t) ==
    /\ ~c_ub
    /\ c_th[t].pc = "body"
    /\ c_th[t].op = "contains"
    /\ Current(t)
    /\ c_th' = [c_th EXCEPT ![t] =
                [@ EXCEPT !.pc = "release", !.placed = TRUE,
                          !.rel = release(c_set, c_th[t].x)]]
    /\ UNCHANGED <<c_set, c_locks, c_global, c_pop, c_ub>>

\* remove(x) up to the entry of release(x)
StripedRemoveBody(t) ==
    /\ ~c_ub
    /\ c_th[t].pc = "body"
    /\ c_th[t].op = "remove"
    /\ Current(t)
    /\ LET o == StripedRemove(c_set, c_th[t].x)
       IN  /\ c_set' = o.st
           /\ c_th' = [c_th EXCEPT ![t] =
                        [@ EXCEPT !.pc = "release", !.placed = TRUE,
                                  !.rel = release(c_set, c_th[t].x)]]
    /\ UNCHANGED <<c_locks, c_global, c_pop, c_ub>>

\* add(x) up to the entry of release(x)
StripedAddBody(t) ==
    /\ ~c_ub
    /\ c_th[t].pc = "body"
    /\ c_th[t].op = "add"
    /\ Current(t)
    /\ IF contains_internal(c_set, c_th[t].x)
       THEN /\ c_th' = [c_th EXCEPT ![t] =
                        [@ EXCEPT !.pc = "release", !.placed = TRUE,
                                  !.rel = release(c_set, c_th[t].x)]]
            /\ UNCHANGED c_set
       ELSE LET r == DisplaceLoop(c_set, c_th[t].x, 0)
            IN  /\ c_set' = r.st
                /\ c_th' = [c_th EXCEPT ![t] =
                            [@ EXCEPT !.pc = "release",
                                      !.placed = r.placed,
                                      !.rel = release(r.st, c_th[t].x)]]
    /\ UNCHANGED <<c_locks, c_global, c_pop, c_ub>>

\* release(x): the next unlock(); after the last one the call returns, or
\* an add that did not place its element goes on to resize()
StripedUnlock(t) ==
    /\ ~c_ub
    /\ c_th[t].pc = "release"
    /\ Current(t)
    /\ c_locks' = SetOwner(c_locks, Head(c_th[t].rel), 0)
    /\ c_th' = [c_th EXCEPT ![t] =
                IF Tail(c_th[t].rel) # <<>>
                THEN [@ EXCEPT !.unlocked = Append(@, Head(c_th[t].rel)),
                               !.rel = Tail(@)]
                ELSE IF c_th[t].placed
                THEN [StripedIdle EXCEPT !.calls = c_th[t].calls + 1]
                ELSE [StripedIdle EXCEPT !.pc = "resize", !.op = "add",
                                         !.x = c_th[t].x,
                                         !.calls = c_th[t].calls]]
    /\ UNCHANGED <<c_set, c_global, c_pop, c_ub>>

\* resize(): global_resize_lock locked, table_size doubled, table0 and
\* table1 moved into old0 and old1
StripedResizeLock(t) ==
    /\ ~c_ub
    /\ c_th[t].pc = "resize"
    /\ c_global = 0
    /\ c_global' = t
    /\ c_set' = [c_set EXCEPT !.table_size = 2 * @,
                              !.table0 = [i \in {} |-> Empty],
                              !.table1 = [i \in {} |-> Empty]]
    /\ c_th' = [c_th EXCEPT ![t] = [@ EXCEPT !.pc = "resize_body",
                                             !.old = c_set]]
    /\ UNCHANGED <<c_locks, c_pop, c_ub>>

\* resize(): the tables and the lock arrays assigned, the seeds drawn and
\* the old elements reinserted; then add(x) again, unless a reinsertion
\* called resize() and blocks on global_resize_lock
StripedResizeBody(t) ==
    /\ ~c_ub
    /\ c_th[t].pc = "resize_body"
    /\ \E z \in StripedResize(c_th[t].old) :
        /\ c_set' = z.st
        /\ c_locks' = GrowLocks(c_locks, z.st.table_size)
        /\ c_global' = IF z.hung THEN t ELSE 0
        /\ c_th' = [c_th EXCEPT ![t] =
                    IF z.hung
                    THEN [@ EXCEPT !.pc = "hung", !.old = NewSet(0, 0, 0)]
                    ELSE [@ EXCEPT !.pc = "acquire",
                                   !.old = NewSet(0, 0, 0),
                                   !.seen = Seen(z.st),
                                   !.todo = acquire(z.st, c_th[t].x),
                                   !.order = <<>>, !.rel = <<>>,
                                   !.unlocked = <<>>]]
    /\ UNCHANGED <<c_pop, c_ub>>

\* a thread inside contains, add or remove goes on after a resize replaced
\* the arrays: it indexes arrays of another length, touches slots whose
\* mutex it does not hold or unlocks a mutex it does not own.  The
\* behaviour is undefined and is followed no further.
StripedStale(t) ==
    /\ ~c_ub
    /\ c_th[t].pc \in {"acquire", "body", "release"}
    /\ ~Current(t)
    /\ c_ub' = TRUE
    /\ UNCHANGED <<c_set, c_locks, c_global, c_th, c_pop>>

StripedStep(t) ==
    \/ StripedLock(t)
    \/ StripedContainsBody(t)
    \/ StripedRemoveBody(t)
    \/ StripedAddBody(t)
    \/ StripedUnlock(t)
    \/ StripedResizeLock(t)
    \/ StripedResizeBody(t)
    \/ StripedStale(t)

StripedThreadsNext ==
    \/ StripedPopulate /\ UNCHANGED <<b_vars, s_vars, p_vars, q_vars, m_vars, x_vars>>
    \/ \E t \in Threads :
        StripedCall(t) /\ UNCHANGED <<b_vars, s_vars, p_vars, q_vars, m_vars, x_vars>>
    \/ \E t \in Threads :
        StripedStep(t) /\ UNCHANGED <<b_vars, s_vars, p_vars, q_vars, m_vars, x_vars>>

\* the slots <<table, index>> the body of a call reads or writes
StripedAccesses(st, op, x) ==
    IF op = "add" /\ ~contains_internal(st, x)
    THEN {<<0, hash0(st, x)>>, <<1, hash1(st, x)>>} \cup
         StripedChainWrites(st, x, 0)
    ELSE {<<0, hash0(st, x)>>} \cup
         (IF st.table0[hash0(st, x)] = x THEN {} ELSE {<<1, hash1(st, x)>>})

\* C21: while a thread whose element has hash0(x) = hash1(x) = i works on
\* table1[i] holding only locks0[i], no other thread that has its own
\* bucket locks reads or writes table1[i].
StripedSingleLockExclusive ==
    \A t \in Threads, u \in Threads :
        (/\ t # u
         /\ c_th[t].pc = "body" /\ Current(t)
         /\ c_th[u].pc = "body" /\ Current(u)
         /\ Len(c_th[t].order) = 1
         /\ <<1, c_th[t].order[1][2]>> \in
                StripedAccesses(c_set, c_th[t].op, c_th[t].x))
        => <<1, c_th[t].order[1][2]>> \notin
                StripedAccesses(c_set, c_th[u].op, c_th[u].x)

\* C22: every thread inside contains, add or remove works on arrays of the
\* length its indices were computed for: table_size, the seeds, the tables
\* and the lock arrays are as they were when acquire hashed the element.
StripedIndicesCurrent ==
    \A t \in Threads :
        c_th[t].pc \in {"acquire", "body", "release"} => Current(t)

\* no resize is in flight and no thread works with indices of replaced arrays
StripedFixed ==
    /\ ~c_ub
    /\ c_global = 0
    /\ \A t \in Threads :
        /\ c_th[t].pc \in {"idle", "acquire", "body", "release"}
        /\ c_th[t].pc # "idle" => Current(t)

\* C24: with the seeds and table_size fixed, a thread that holds one bucket
\* mutex and has another still to lock holds the one with the smaller
\* index, and whenever some call of contains, add or remove is unfinished
\* some thread can take its next step: no threads wait for bucket locks in
\* a cycle.
StripedNoBucketDeadlock ==
    StripedFixed =>
        /\ \A t \in Threads :
            (c_th[t].pc = "acquire" /\ c_th[t].order # <<>>) =>
                c_th[t].order[1][2] < Head(c_th[t].todo)[2]
        /\ (\E t \in Threads : c_th[t].pc # "idle") =>
            ENABLED (\E t \in Threads :
                        \/ StripedLock(t)
                        \/ StripedContainsBody(t)
                        \/ StripedRemoveBody(t)
                        \/ StripedAddBody(t)
                        \/ StripedUnlock(t))

\* a thread holding one bucket mutex waits for its second, which another
\* thread holds, while the seeds and table_size are fixed
StripedBucketContention ==
    /\ StripedFixed
    /\ \E t \in Threads, u \in Threads :
        /\ t # u
        /\ c_th[t].pc = "acquire"
        /\ Len(c_th[t].order) = 1
        /\ Owner(c_locks, Head(c_th[t].todo)) = u

\* C25: release(x) unlocks the bucket mutexes in the reverse of the order
\* in which acquire(x) locked them: the mutex it unlocks next is the last
\* one locked that is still held.
StripedReleaseReverses ==
    \A t \in Threads :
        c_th[t].pc = "release" =>
            Head(c_th[t].rel) =
                c_th[t].order[Len(c_th[t].order) - Len(c_th[t].unlocked)]

\* C34: every unlock of release(x) is applied to a mutex the calling thread
\* locked in the matching acquire(x) and still holds: the mutex release(x)
\* unlocks next, computed from x with the seeds and table_size of the
\* moment, is in the lock arrays and owned by the thread, a resize of
\* another thread since the acquire notwithstanding.
StripedReleaseUnlocksHeld ==
    \A t \in Threads :
        c_th[t].pc = "release" =>
            LET r == release(c_set, c_th[t].x)
                k == Len(c_th[t].unlocked) + 1
            IN  /\ k <= Len(r)
                /\ r[k][2] \in DOMAIN c_locks.locks0
                /\ r[k][2] \in DOMAIN c_locks.locks1
                /\ r[k] \in {c_th[t].order[n] : n \in 1 .. Len(c_th[t].order)}
                /\ Owner(c_locks, r[k]) = t

(***************************************************************************)
(* CuckooHashSet of cuckooHash_TM.cpp.  contains, add and remove run in    *)
(* __transaction_atomic blocks, so a call is one action for any number of  *)
(* threads; resize() runs inside add's transaction and reinserts with its  *)
(* own copy of the displacement loop.                                      *)
(***************************************************************************)
\* the constructor argument `size`
InitTM == 3

\* resize(): the two reinsertion loops over the saved elements; an element
\* still displaced when its loop ends is not stored anywhere
RECURSIVE TMReinsert(_, _)
TMReinsert(st, todo) ==
    IF todo = <<>> THEN st
    ELSE TMReinsert(DisplaceLoop(st, Head(todo), 0).st, Tail(todo))

\* resize(): outcomes [st, lost], one per pair of drawn seeds; lost = the
\* elements stored before resize() and not after it
TMResize(st) ==
    {LET z == TMReinsert(NewSet(2 * st.table_size, sd, sd1),
                         Occupied(st.table0, st.table_size) \o
                         Occupied(st.table1, st.table_size))
     IN  [st |-> z, lost |-> Stored(st) \ Stored(z)] :
     <<sd, sd1>> \in Seeds \X Seeds}

\* add(x): outcomes [st, ret, cnt, lost]; cnt = the calls of resize()
RECURSIVE TMAdd(_, _)
TMAdd(st, x) ==
    IF contains(st, x)
    THEN {[st |-> st, ret |-> FALSE, cnt |-> 0, lost |-> {}]}
    ELSE LET r == DisplaceLoop(st, x, 0)
         IN  IF r.placed
             THEN {[st |-> r.st, ret |-> TRUE, cnt |-> 0, lost |-> {}]}
             ELSE UNION {
                    {[st |-> o.st, ret |-> o.ret, cnt |-> o.cnt + 1,
                      lost |-> z.lost \cup o.lost] :
                        o \in TMAdd(z.st, r.loop_x)} :
                    z \in TMResize(r.st)}

TMNoCall == [op |-> "none", x |-> Empty, ret |-> FALSE, resized |-> FALSE,
             lost |-> {}]

TMAddCall ==
    \E x \in Keys : \E o \in TMAdd(m_set, x) :
        /\ m_set' = o.st
        /\ m_cnt' = m_cnt + o.cnt
        /\ m_call' = [op |-> "add", x |-> x, ret |-> o.ret,
                      resized |-> o.cnt > 0, lost |-> o.lost]

TMRemoveCall ==
    \E x \in Keys :
        LET o == BaseRemove(m_set, x)
        IN  /\ m_set' = o.st
            /\ m_call' = [TMNoCall EXCEPT !.op = "remove", !.x = x,
                                          !.ret = o.ret]
            /\ UNCHANGED m_cnt

TMContainsCall ==
    \E x \in Keys :
        /\ m_call' = [TMNoCall EXCEPT !.op = "contains", !.x = x,
                                      !.ret = contains(m_set, x)]
        /\ UNCHANGED <<m_set, m_cnt>>

TMNext ==
    \/ TMAddCall /\ UNCHANGED <<b_vars, s_vars, p_vars, c_vars, q_vars, x_vars>>
    \/ TMRemoveCall /\ UNCHANGED <<b_vars, s_vars, p_vars, c_vars, q_vars, x_vars>>
    \/ TMContainsCall /\ UNCHANGED <<b_vars, s_vars, p_vars, c_vars, q_vars, x_vars>>

\* C33: resize() reinserts all elements: every element stored in table0 or
\* table1 before a resize() is stored in the new tables after it, also when
\* the reinsertion loop of some element runs LIMIT iterations without
\* finding an empty slot.
TMResizeKeepsElements == m_call.resized => m_call.lost = {}

(***************************************************************************)
(* TxCuckooHashSet of tm_cuckoo.cpp, called by several threads after       *)
(* populate.  Each __transaction_atomic block is one step; the loads of    *)
(* the flag resizing and the statements of the resize section are steps of *)
(* their own, and the resize section's writes are not transactional.       *)
(***************************************************************************)
\* the constructor argument `size`
InitTx == 2
\* the keys populate and the threads draw: 0, 2, .., 2 * MaxTxKey
MaxTxKey == 2
\* the calls one thread makes
MaxTxCalls == 2

TxKeys == {2 * k : k \in 0 .. MaxTxKey}

\* hash0(x, sz) and hash1(x, sz); only hash1 uses a seed
thash0(st, x) == hasher(x) % st.table_size

thash1(st, x) == Xor(hasher(x), st.seed1) % st.table_size

\* the constructor; the member seed is drawn and never read
NewTxSet(sz, sd1) ==
    [table_size |-> sz,
     table0 |-> [i \in 0 .. sz - 1 |-> Empty],
     table1 |-> [i \in 0 .. sz - 1 |-> Empty],
     seed1 |-> sd1]

\* the transaction of contains
TxFind(st, x) ==
    \/ st.table0[thash0(st, x)] = x
    \/ st.table1[thash1(st, x)] = x

\* the transaction of remove: [st, ret]
TxErase(st, x) ==
    IF st.table0[thash0(st, x)] = x
    THEN [st |-> [st EXCEPT !.table0[thash0(st, x)] = Empty], ret |-> TRUE]
    ELSE IF st.table1[thash1(st, x)] = x
    THEN [st |-> [st EXCEPT !.table1[thash1(st, x)] = Empty], ret |-> TRUE]
    ELSE [st |-> st, ret |-> FALSE]

\* the transaction of one iteration of add: [st, cur, placed, already_present]
TxPlace(st, cur) ==
    LET h0 == thash0(st, cur)
        h1 == thash1(st, cur)
    IN  IF st.table0[h0] = cur \/ st.table1[h1] = cur
        THEN [st |-> st, cur |-> cur, placed |-> FALSE,
              already_present |-> TRUE]
        ELSE IF st.table0[h0] = Empty
        THEN [st |-> [st EXCEPT !.table0[h0] = cur], cur |-> cur,
              placed |-> TRUE, already_present |-> FALSE]
        ELSE IF st.table1[h1] = Empty
        THEN [st |-> [st EXCEPT !.table1[h1] = cur], cur |-> cur,
              placed |-> TRUE, already_present |-> FALSE]
        ELSE [st |-> [st EXCEPT !.table0[h0] = cur], cur |-> st.table0[h0],
              placed |-> FALSE, already_present |-> FALSE]

\* the for loop of add run by one thread alone, from iteration iter on:
\* [st, out], out = "true", "false" or "resize"
RECURSIVE TxAddLoop(_, _, _)
TxAddLoop(st, cur, iter) ==
    IF iter >= LIMIT THEN [st |-> st, out |-> "resize"]
    ELSE LET a == TxPlace(st, cur)
         IN  IF a.already_present THEN [st |-> a.st, out |-> "false"]
             ELSE IF a.placed THEN [st |-> a.st, out |-> "true"]
             ELSE TxAddLoop(a.st, a.cur, iter + 1)

\* a thread between calls.  x is the argument of the running add, contains
\* or remove, cur and iter the locals of add, old the elements of old0 and
\* old1 the resize section has still to reinsert, ret the value being
\* returned.  frames holds the callers of the running add inside this
\* thread, innermost first: "reinsert" is the resize section's loop, with
\* its cur and the rest of old; "tail" is `return add(cur)` at the end of
\* the resize section, whose lock_guard is released when that add returns.
TxIdle ==
    [pc |-> "idle", op |-> "none", x |-> Empty, cur |-> Empty, iter |-> 0,
     old |-> <<>>, ret |-> FALSE, frames |-> <<>>, calls |-> 0]

\* the thread won the compare-exchange and has not stored false yet
TxResizer(t) ==
    \/ x_th[t].pc \in {"resize_lock", "resize_move", "reinsert"}
    \/ \E n \in 1 .. Len(x_th[t].frames) : x_th[t].frames[n].kind = "reinsert"

\* the positions at which the next step is a transaction
TxPcs == {"c_tx", "r_tx", "ac_tx", "a_tx"}

\* main: set.populate(initial_size / 2) before any thread is started, one
\* add that stores a drawn key; an add that reaches the resize section
\* does not return (see TxReinsert), and no thread is started
TxPopulate ==
    /\ x_pop < InitTx \div 2
    /\ \E x \in TxKeys :
        /\ ~TxFind(x_set, x)
        /\ TxAddLoop(x_set, x, 0).out = "true"
        /\ x_set' = TxAddLoop(x_set, x, 0).st
    /\ x_pop' = x_pop + 1
    /\ UNCHANGED <<x_resizing, x_mutex, x_th, x_ub>>

\* a thread of the driver calls add, remove or contains
TxCall(t) ==
    /\ ~x_ub
    /\ x_pop = InitTx \div 2
    /\ x_th[t].pc = "idle"
    /\ x_th[t].calls < MaxTxCalls
    /\ \E op \in {"add", "remove", "contains"}, x \in TxKeys :
        x_th' = [x_th EXCEPT ![t] = [@ EXCEPT !.pc = "wait", !.op = op,
                                              !.x = x]]
    /\ UNCHANGED <<x_set, x_resizing, x_mutex, x_pop, x_ub>>

\* while (is_resizing()) yield: the first statement of contains, add and
\* remove, after which add goes on to its call of contains(x); the same
\* loop inside that contains(x); and the loop of add's else branch,
\* followed by `return add(cur)`
TxWait(t) ==
    /\ ~x_ub
    /\ x_th[t].pc \in {"wait", "ac_wait", "else_wait"}
    /\ ~x_resizing
    /\ x_th' = [x_th EXCEPT ![t] =
                IF x_th[t].pc = "ac_wait" THEN [@ EXCEPT !.pc = "ac_tx"]
                ELSE IF x_th[t].pc = "else_wait"
                THEN [@ EXCEPT !.pc = "wait", !.x = x_th[t].cur]
                ELSE IF x_th[t].op = "contains" THEN [@ EXCEPT !.pc = "c_tx"]
                ELSE IF x_th[t].op = "remove" THEN [@ EXCEPT !.pc = "r_tx"]
                ELSE [@ EXCEPT !.pc = "ac_wait"]]
    /\ UNCHANGED <<x_set, x_resizing, x_mutex, x_pop, x_ub>>

\* contains: the transaction
TxContainsTx(t) ==
    /\ ~x_ub
    /\ x_th[t].pc = "c_tx"
    /\ x_th' = [x_th EXCEPT ![t].pc = "return",
                            ![t].ret = TxFind(x_set, x_th[t].x)]
    /\ UNCHANGED <<x_set, x_resizing, x_mutex, x_pop, x_ub>>

\* remove: the transaction
TxRemoveTx(t) ==
    /\ ~x_ub
    /\ x_th[t].pc = "r_tx"
    /\ x_set' = TxErase(x_set, x_th[t].x).st
    /\ x_th' = [x_th EXCEPT ![t].pc = "return",
                            ![t].ret = TxErase(x_set, x_th[t].x).ret]
    /\ UNCHANGED <<x_resizing, x_mutex, x_pop, x_ub>>

\* add: the transaction of contains(x), `return false` or T cur = x
TxAddContains(t) ==
    /\ ~x_ub
    /\ x_th[t].pc = "ac_tx"
    /\ x_th' = [x_th EXCEPT ![t] =
                IF TxFind(x_set, x_th[t].x)
                THEN [@ EXCEPT !.pc = "return", !.ret = FALSE]
                ELSE [@ EXCEPT !.pc = "a_iter", !.cur = x_th[t].x,
                               !.iter = 0]]
    /\ UNCHANGED <<x_set, x_resizing, x_mutex, x_pop, x_ub>>

\* add: the loop test and while (is_resizing()) yield inside the loop
TxAddIter(t) ==
    /\ ~x_ub
    /\ x_th[t].pc = "a_iter"
    /\ x_th[t].iter < LIMIT => ~x_resizing
    /\ x_th' = [x_th EXCEPT ![t].pc =
                    IF x_th[t].iter < LIMIT THEN "a_tx" ELSE "cas"]
    /\ UNCHANGED <<x_set, x_resizing, x_mutex, x_pop, x_ub>>

\* add: the transaction of one iteration and the two returns after it
TxAddTry(t) ==
    /\ ~x_ub
    /\ x_th[t].pc = "a_tx"
    /\ LET a == TxPlace(x_set, x_th[t].cur)
       IN  /\ x_set' = a.st
           /\ x_th' = [x_th EXCEPT ![t] =
                        IF a.already_present
                        THEN [@ EXCEPT !.pc = "return", !.ret = FALSE]
                        ELSE IF a.placed
                        THEN [@ EXCEPT !.pc = "return", !.ret = TRUE]
                        ELSE [@ EXCEPT !.pc = "a_iter", !.cur = a.cur,
                                       !.iter = x_th[t].iter + 1]]
    /\ UNCHANGED <<x_resizing, x_mutex, x_pop, x_ub>>

\* add: resizing.compare_exchange_strong(expected, true), which leaves the
\* flag true whether it wins or not
TxCas(t) ==
    /\ ~x_ub
    /\ x_th[t].pc = "cas"
    /\ x_resizing' = TRUE
    /\ x_th' = [x_th EXCEPT ![t].pc =
                    IF x_resizing THEN "else_wait" ELSE "resize_lock"]
    /\ UNCHANGED <<x_set, x_mutex, x_pop, x_ub>>

\* add: std::lock_guard guard(resize_mutex); locking a std::mutex the
\* thread owns is undefined
TxResizeLock(t) ==
    /\ ~x_ub
    /\ x_th[t].pc = "resize_lock"
    /\ x_mutex \in {0, t}
    /\ IF x_mutex = t
       THEN x_ub' = TRUE /\ UNCHANGED <<x_mutex, x_th>>
       ELSE /\ x_mutex' = t
            /\ x_th' = [x_th EXCEPT ![t].pc = "resize_move"]
            /\ UNCHANGED x_ub
    /\ UNCHANGED <<x_set, x_resizing, x_pop>>

\* add: table0 and table1 moved into old0 and old1, new tables assigned,
\* table_size doubled, seed1 drawn
TxResizeMove(t) ==
    /\ ~x_ub
    /\ x_th[t].pc = "resize_move"
    /\ \E sd1 \in Seeds : x_set' = NewTxSet(2 * x_set.table_size, sd1)
    /\ x_th' = [x_th EXCEPT ![t] =
                [@ EXCEPT !.pc = "reinsert",
                          !.old = Occupied(x_set.table0, x_set.table_size) \o
                                  Occupied(x_set.table1, x_set.table_size)]]
    /\ UNCHANGED <<x_resizing, x_mutex, x_pop, x_ub>>

\* add: the next add(opt.value()) of the two reinsertion loops; after the
\* last one resizing.store(false) and `return add(cur)`
TxReinsert(t) ==
    /\ ~x_ub
    /\ x_th[t].pc = "reinsert"
    /\ IF x_th[t].old = <<>>
       THEN /\ x_resizing' = FALSE
            /\ x_th' = [x_th EXCEPT ![t] =
                        [@ EXCEPT !.pc = "wait", !.x = x_th[t].cur,
                                  !.frames = <<[kind |-> "tail",
                                                cur |-> Empty,
                                                old |-> <<>>]>> \o @]]
       ELSE /\ UNCHANGED x_resizing
            /\ x_th' = [x_th EXCEPT ![t] =
                        [@ EXCEPT !.pc = "wait", !.x = Head(x_th[t].old),
                                  !.old = <<>>,
                                  !.frames = <<[kind |-> "reinsert",
                                                cur |-> x_th[t].cur,
                                                old |-> Tail(x_th[t].old)]>>
                                             \o @]]
    /\ UNCHANGED <<x_set, x_mutex, x_pop, x_ub>>

\* a return of contains, remove or add: to the driver, to the reinsertion
\* loop, or through `return add(cur)`, which unlocks resize_mutex
TxReturn(t) ==
    /\ ~x_ub
    /\ x_th[t].pc = "return"
    /\ IF x_th[t].frames = <<>>
       THEN /\ x_th' = [x_th EXCEPT ![t] =
                        [TxIdle EXCEPT !.calls = x_th[t].calls + 1]]
            /\ UNCHANGED x_mutex
       ELSE IF Head(x_th[t].frames).kind = "reinsert"
       THEN /\ x_th' = [x_th EXCEPT ![t] =
                        [@ EXCEPT !.pc = "reinsert",
                                  !.cur = Head(x_th[t].frames).cur,
                                  !.old = Head(x_th[t].frames).old,
                                  !.frames = Tail(@)]]
            /\ UNCHANGED x_mutex
       ELSE /\ x_th' = [x_th EXCEPT ![t].frames = Tail(@)]
            /\ x_mutex' = 0
    /\ UNCHANGED <<x_set, x_resizing, x_pop, x_ub>>

\* a transaction runs while another thread executes the writes of the
\* resize section, which are not transactional: it reads table_size and
\* indexes vectors that are being moved and reallocated.  The behaviour
\* is undefined and is followed no further.
TxStale(t) ==
    /\ ~x_ub
    /\ x_th[t].pc \in TxPcs
    /\ \E u \in Threads : u # t /\ x_th[u].pc = "resize_move"
    /\ x_ub' = TRUE
    /\ UNCHANGED <<x_set, x_resizing, x_mutex, x_th, x_pop>>

TxStep(t) ==
    \/ TxWait(t)
    \/ TxContainsTx(t)
    \/ TxRemoveTx(t)
    \/ TxAddContains(t)
    \/ TxAddIter(t)
    \/ TxAddTry(t)
    \/ TxCas(t)
    \/ TxResizeLock(t)
    \/ TxResizeMove(t)
    \/ TxReinsert(t)
    \/ TxReturn(t)
    \/ TxStale(t)

TxNext ==
    \/ TxPopulate /\ UNCHANGED <<b_vars, s_vars, p_vars, c_vars, q_vars, m_vars>>
    \/ \E t \in Threads :
        TxCall(t) /\ UNCHANGED <<b_vars, s_vars, p_vars, c_vars, q_vars, m_vars>>
    \/ \E t \in Threads :
        TxStep(t) /\ UNCHANGED <<b_vars, s_vars, p_vars, c_vars, q_vars, m_vars>>

\* C31: an add that exhausts LIMIT iterations and wins the compare-exchange
\* reinserts every old element, sets resizing back to false and returns:
\* every state with resizing = true is eventually followed by a state with
\* resizing = false, unless the execution has run into undefined behaviour.
TxResizingEnds == (x_resizing /\ ~x_ub) ~> (~x_resizing \/ x_ub)

\* C32: while the flag resizing is true no thread other than the resizing
\* thread is about to run a transaction of contains, add or remove, that
\* is, to read or write table0, table1 or table_size.
TxResizeExcludesOthers ==
    \A t \in Threads, u \in Threads :
        (t # u /\ x_resizing /\ TxResizer(t)) => x_th[u].pc \notin TxPcs

(***************************************************************************)
(* Specifications: one per variant; the other variants' objects stay as    *)
(* constructed.                                                            *)
(***************************************************************************)
vars == <<b_vars, s_vars, p_vars, c_vars, q_vars, m_vars, x_vars>>

InitBaseline ==
    /\ b_set \in {NewSet(InitBase, sd, sd1) : <<sd, sd1>> \in Seeds \X Seeds}
    /\ b_abs = {}
    /\ b_call = NoCall
    /\ s_set = NewSet(InitStriped, 0, 0)
    /\ s_abs = {}
    /\ s_call = StripedNoCall
    /\ s_hung = FALSE
    /\ p_set = NewProbeSet(InitProbe, 0, 0)
    /\ p_locks = NewLocks(InitProbe)
    /\ p_rw = [readers |-> {}, writer |-> 0]
    /\ p_th = [t \in Threads |-> IdleThread]
    /\ p_started = FALSE
    /\ p_before = 0
    /\ p_dup = FALSE
    /\ p_lin = LinStart({})
    /\ c_set = NewSet(InitStriped, 0, 0)
    /\ c_locks = StripedLocks(InitStriped)
    /\ c_global = 0
    /\ c_th = [t \in Threads |-> StripedIdle]
    /\ c_pop = 0
    /\ c_ub = FALSE
    /\ q_set = NewProbeSet(InitSolo, 0, 0)
    /\ q_call = SoloNoCall
    /\ m_set = NewSet(InitTM, 0, 0)
    /\ m_cnt = 0
    /\ m_call = TMNoCall
    /\ x_set = NewTxSet(InitTx, 0)
    /\ x_resizing = FALSE
    /\ x_mutex = 0
    /\ x_th = [t \in Threads |-> TxIdle]
    /\ x_pop = 0
    /\ x_ub = FALSE

InitStripedSet ==
    /\ b_set = NewSet(InitBase, 0, 0)
    /\ b_abs = {}
    /\ b_call = NoCall
    /\ s_set \in {NewSet(InitStriped, sd, sd1) : <<sd, sd1>> \in Seeds \X Seeds}
    /\ s_abs = {}
    /\ s_call = StripedNoCall
    /\ s_hung = FALSE
    /\ p_set = NewProbeSet(InitProbe, 0, 0)
    /\ p_locks = NewLocks(InitProbe)
    /\ p_rw = [readers |-> {}, writer |-> 0]
    /\ p_th = [t \in Threads |-> IdleThread]
    /\ p_started = FALSE
    /\ p_before = 0
    /\ p_dup = FALSE
    /\ p_lin = LinStart({})
    /\ c_set = NewSet(InitStriped, 0, 0)
    /\ c_locks = StripedLocks(InitStriped)
    /\ c_global = 0
    /\ c_th = [t \in Threads |-> StripedIdle]
    /\ c_pop = 0
    /\ c_ub = FALSE
    /\ q_set = NewProbeSet(InitSolo, 0, 0)
    /\ q_call = SoloNoCall
    /\ m_set = NewSet(InitTM, 0, 0)
    /\ m_cnt = 0
    /\ m_call = TMNoCall
    /\ x_set = NewTxSet(InitTx, 0)
    /\ x_resizing = FALSE
    /\ x_mutex = 0
    /\ x_th = [t \in Threads |-> TxIdle]
    /\ x_pop = 0
    /\ x_ub = FALSE

InitProbeSet ==
    /\ b_set = NewSet(InitBase, 0, 0)
    /\ b_abs = {}
    /\ b_call = NoCall
    /\ s_set = NewSet(InitStriped, 0, 0)
    /\ s_abs = {}
    /\ s_call = StripedNoCall
    /\ s_hung = FALSE
    /\ p_set \in {NewProbeSet(InitProbe, sd, sd1) :
                    <<sd, sd1>> \in ProbeSeeds \X ProbeSeeds}
    /\ p_locks = NewLocks(InitProbe)
    /\ p_rw = [readers |-> {}, writer |-> 0]
    /\ p_th = [t \in Threads |-> IdleThread]
    /\ p_started = FALSE
    /\ p_before = 0
    /\ p_dup = FALSE
    /\ p_lin = LinStart({})
    /\ c_set = NewSet(InitStriped, 0, 0)
    /\ c_locks = StripedLocks(InitStriped)
    /\ c_global = 0
    /\ c_th = [t \in Threads |-> StripedIdle]
    /\ c_pop = 0
    /\ c_ub = FALSE
    /\ q_set = NewProbeSet(InitSolo, 0, 0)
    /\ q_call = SoloNoCall
    /\ m_set = NewSet(InitTM, 0, 0)
    /\ m_cnt = 0
    /\ m_call = TMNoCall
    /\ x_set = NewTxSet(InitTx, 0)
    /\ x_resizing = FALSE
    /\ x_mutex = 0
    /\ x_th = [t \in Threads |-> TxIdle]
    /\ x_pop = 0
    /\ x_ub = FALSE

InitStripedThreads ==
    /\ b_set = NewSet(InitBase, 0, 0)
    /\ b_abs = {}
    /\ b_call = NoCall
    /\ s_set = NewSet(InitStriped, 0, 0)
    /\ s_abs = {}
    /\ s_call = StripedNoCall
    /\ s_hung = FALSE
    /\ p_set = NewProbeSet(InitProbe, 0, 0)
    /\ p_locks = NewLocks(InitProbe)
    /\ p_rw = [readers |-> {}, writer |-> 0]
    /\ p_th = [t \in Threads |-> IdleThread]
    /\ p_started = FALSE
    /\ p_before = 0
    /\ p_dup = FALSE
    /\ p_lin = LinStart({})
    /\ c_set \in {NewSet(InitStriped, sd, sd1) : <<sd, sd1>> \in Seeds \X Seeds}
    /\ c_locks = StripedLocks(InitStriped)
    /\ c_global = 0
    /\ c_th = [t \in Threads |-> StripedIdle]
    /\ c_pop = 0
    /\ c_ub = FALSE
    /\ q_set = NewProbeSet(InitSolo, 0, 0)
    /\ q_call = SoloNoCall
    /\ m_set = NewSet(InitTM, 0, 0)
    /\ m_cnt = 0
    /\ m_call = TMNoCall
    /\ x_set = NewTxSet(InitTx, 0)
    /\ x_resizing = FALSE
    /\ x_mutex = 0
    /\ x_th = [t \in Threads |-> TxIdle]
    /\ x_pop = 0
    /\ x_ub = FALSE

InitProbeSolo ==
    /\ b_set = NewSet(InitBase, 0, 0)
    /\ b_abs = {}
    /\ b_call = NoCall
    /\ s_set = NewSet(InitStriped, 0, 0)
    /\ s_abs = {}
    /\ s_call = StripedNoCall
    /\ s_hung = FALSE
    /\ p_set = NewProbeSet(InitProbe, 0, 0)
    /\ p_locks = NewLocks(InitProbe)
    /\ p_rw = [readers |-> {}, writer |-> 0]
    /\ p_th = [t \in Threads |-> IdleThread]
    /\ p_started = FALSE
    /\ p_before = 0
    /\ p_dup = FALSE
    /\ p_lin = LinStart({})
    /\ c_set = NewSet(InitStriped, 0, 0)
    /\ c_locks = StripedLocks(InitStriped)
    /\ c_global = 0
    /\ c_th = [t \in Threads |-> StripedIdle]
    /\ c_pop = 0
    /\ c_ub = FALSE
    /\ q_set \in {NewProbeSet(InitSolo, sd, sd1) : <<sd, sd1>> \in Seeds \X Seeds}
    /\ q_call = SoloNoCall
    /\ m_set = NewSet(InitTM, 0, 0)
    /\ m_cnt = 0
    /\ m_call = TMNoCall
    /\ x_set = NewTxSet(InitTx, 0)
    /\ x_resizing = FALSE
    /\ x_mutex = 0
    /\ x_th = [t \in Threads |-> TxIdle]
    /\ x_pop = 0
    /\ x_ub = FALSE

InitTMSet ==
    /\ b_set = NewSet(InitBase, 0, 0)
    /\ b_abs = {}
    /\ b_call = NoCall
    /\ s_set = NewSet(InitStriped, 0, 0)
    /\ s_abs = {}
    /\ s_call = StripedNoCall
    /\ s_hung = FALSE
    /\ p_set = NewProbeSet(InitProbe, 0, 0)
    /\ p_locks = NewLocks(InitProbe)
    /\ p_rw = [readers |-> {}, writer |-> 0]
    /\ p_th = [t \in Threads |-> IdleThread]
    /\ p_started = FALSE
    /\ p_before = 0
    /\ p_dup = FALSE
    /\ p_lin = LinStart({})
    /\ c_set = NewSet(InitStriped, 0, 0)
    /\ c_locks = StripedLocks(InitStriped)
    /\ c_global = 0
    /\ c_th = [t \in Threads |-> StripedIdle]
    /\ c_pop = 0
    /\ c_ub = FALSE
    /\ q_set = NewProbeSet(InitSolo, 0, 0)
    /\ q_call = SoloNoCall
    /\ m_set \in {NewSet(InitTM, sd, sd1) : <<sd, sd1>> \in Seeds \X Seeds}
    /\ m_cnt = 0
    /\ m_call = TMNoCall
    /\ x_set = NewTxSet(InitTx, 0)
    /\ x_resizing = FALSE
    /\ x_mutex = 0
    /\ x_th = [t \in Threads |-> TxIdle]
    /\ x_pop = 0
    /\ x_ub = FALSE

InitTxSet ==
    /\ b_set = NewSet(InitBase, 0, 0)
    /\ b_abs = {}
    /\ b_call = NoCall
    /\ s_set = NewSet(InitStriped, 0, 0)
    /\ s_abs = {}
    /\ s_call = StripedNoCall
    /\ s_hung = FALSE
    /\ p_set = NewProbeSet(InitProbe, 0, 0)
    /\ p_locks = NewLocks(InitProbe)
    /\ p_rw = [readers |-> {}, writer |-> 0]
    /\ p_th = [t \in Threads |-> IdleThread]
    /\ p_started = FALSE
    /\ p_before = 0
    /\ p_dup = FALSE
    /\ p_lin = LinStart({})
    /\ c_set = NewSet(InitStriped, 0, 0)
    /\ c_locks = StripedLocks(InitStriped)
    /\ c_global = 0
    /\ c_th = [t \in Threads |-> StripedIdle]
    /\ c_pop = 0
    /\ c_ub = FALSE
    /\ q_set = NewProbeSet(InitSolo, 0, 0)
    /\ q_call = SoloNoCall
    /\ m_set = NewSet(InitTM, 0, 0)
    /\ m_cnt = 0
    /\ m_call = TMNoCall
    /\ x_set \in {NewTxSet(InitTx, sd1) : sd1 \in Seeds}
    /\ x_resizing = FALSE
    /\ x_mutex = 0
    /\ x_th = [t \in Threads |-> TxIdle]
    /\ x_pop = 0
    /\ x_ub = FALSE

SpecBase == InitBaseline /\ [][BaseNext]_vars

SpecStriped == InitStripedSet /\ [][StripedNext]_vars

SpecProbe == InitProbeSet /\ [][ProbeNext]_vars

SpecStripedThreads == InitStripedThreads /\ [][StripedThreadsNext]_vars

SpecProbeSolo == InitProbeSolo /\ [][SoloNext]_vars

SpecTM == InitTMSet /\ [][TMNext]_vars

SpecTx == InitTxSet /\ [][TxNext]_vars

\* every thread that can take a step is scheduled again
SpecTxFair ==
    /\ InitTxSet
    /\ [][TxNext]_vars
    /\ \A t \in Threads : WF_x_vars(TxStep(t))

====
